---------------------------- MODULE Spec2Model ----------------------------
(***************************************************************************)
(* A model of the zend wallet engine of openbazaar-go                      *)
(* (src/repo/db/messages.go): the initialization gate and the watch-address*)
(* queue as a concurrent state machine, and the fund-moving operations     *)
(* (Spend/buildTx/NewUnsignedTransaction, SweepAddress,                    *)
(* CreateMultisigSignature, Multisign) as a sequential state machine over  *)
(* a node gateway whose replies are chosen nondeterministically.           *)
(***************************************************************************)
EXTENDS Integers, Sequences, FiniteSets, TLC

(***************************************************************************)
(* Bounds of the model.                                                    *)
(***************************************************************************)
NThreads == 2
MaxCalls == 3
MaxFailedPolls == 2

Threads == 1..NThreads

MaxCoins == 3
MaxOutputs == 2
MaxInputs == 2

(***************************************************************************)
(* Arithmetic and sequence helpers.                                        *)
(***************************************************************************)
\* Go's integer division truncates toward zero (b > 0).
GoDiv(a, b) == IF a >= 0 THEN a \div b ELSE -((-a) \div b)

RECURSIVE SumSeq(_)
SumSeq(s) == IF s = <<>> THEN 0 ELSE Head(s) + SumSeq(Tail(s))

MapSeq(F(_), s) == [i \in 1..Len(s) |-> F(s[i])]

\* All one-to-one sequences enumerating 1..n.
Perms(n) == {p \in [1..n -> 1..n] : \A i, j \in 1..n : i # j => p[i] # p[j]}

\* Insertion of x into a sequence sorted under Less (after equal elements).
RECURSIVE InsertSorted(_, _, _)
InsertSorted(Less(_, _), x, s) ==
    IF s = <<>> THEN <<x>>
    ELSE IF Less(x, Head(s)) THEN <<x>> \o s
    ELSE <<Head(s)>> \o InsertSorted(Less, x, Tail(s))

RECURSIVE SortBy(_, _)
SortBy(Less(_, _), s) ==
    IF s = <<>> THEN <<>>
    ELSE InsertSorted(Less, s[Len(s)], SortBy(Less, SubSeq(s, 1, Len(s) - 1)))

(***************************************************************************)
(* Serialized-size model (package txsizes of the wallet; the same shape as *)
(* spvwallet.EstimateSerializeSize).  A pkScript is a record               *)
(* [id, len]: its bytes, abstracted to a sort key, and its length.         *)
(***************************************************************************)
\* wire.VarIntSerializeSize, for the counts and lengths of the model (all
\* below 2^31, so the 9-byte form is never needed).
VarIntSerializeSize(n) ==
    IF n < 253 THEN 1 ELSE IF n <= 65535 THEN 3 ELSE 5

\* The canonical single-signature output script of the chain: the P2PKH
\* script (OP_DUP OP_HASH160 OP_DATA_20 <20> OP_EQUALVERIFY OP_CHECKSIG)
\* followed by the replay-protection payload (OP_DATA_32 <block hash>,
\* a 3-byte height push, OP_CHECKBLOCKATHEIGHT).
P2PKHPkScriptSize == (1 + 1 + 1 + 20 + 1 + 1) + (1 + 32) + (1 + 3) + 1

P2PKHOutputSize == 8 + 1 + P2PKHPkScriptSize

\* Worst-case input sizes per script type: outpoint (32 + 4), script length
\* byte, signature script, sequence (4).
RedeemInputSize(scriptType) ==
    CASE scriptType = "P2PKH" -> 32 + 4 + 1 + (1 + 73 + 1 + 33) + 4
      [] scriptType = "P2SH_1of2_Multisig" ->
            32 + 4 + 1 + (1 + 1 + 72 + 1 + 1 + 1 + 33 + 1 + 33 + 1 + 1) + 4
      [] scriptType = "P2SH_2of3_Multisig" ->
            32 + 4 + 1
            + (1 + 1 + 72 + 1 + 72 + 1 + 1 + 1 + 33 + 1 + 33 + 1 + 33 + 1 + 1) + 4

\* wire.TxOut.SerializeSize
OutputSerializeSize(out) == 8 + VarIntSerializeSize(out.PkScript.len) + out.PkScript.len

EstimateSerializeSize(inputCount, txOuts, addChangeOutput, scriptType) ==
    LET changeSize == IF addChangeOutput THEN P2PKHOutputSize ELSE 0
        outputCount == Len(txOuts) + (IF addChangeOutput THEN 1 ELSE 0)
    IN  8 + VarIntSerializeSize(inputCount) + VarIntSerializeSize(outputCount)
        + inputCount * RedeemInputSize(scriptType)
        + SumSeq(MapSeq(OutputSerializeSize, txOuts))
        + changeSize

(***************************************************************************)
(* txrules (btcwallet): fee for a size, and the dust rule.                 *)
(***************************************************************************)
DefaultRelayFeePerKb == 1000

\* The fee for a size at a rate per 1000 bytes; a fee that rounds to zero
\* is raised to the rate.  (The library also clamps a negative fee or one
\* above MaxSatoshi = 21e14 to MaxSatoshi; rates here are non-negative and
\* every amount of the model is far below that cap.)
FeeForSerializeSize(relayFeePerKb, txSerializeSize) ==
    LET fee == GoDiv(relayFeePerKb * txSerializeSize, 1000)
    IN  IF fee = 0 /\ relayFeePerKb > 0 THEN relayFeePerKb ELSE fee

IsDustAmount(amount, scriptSize, relayFeePerKb) ==
    LET totalSize == 8 + VarIntSerializeSize(scriptSize) + scriptSize + 148
    IN  GoDiv(amount * 1000, 3 * totalSize) < relayFeePerKb

(***************************************************************************)
(* coinset.MaxValueAgeCoinSelector{MaxInputs: 10000, MinChangeAmount: 0}:  *)
(* the coins are sorted by descending value*confirmations (sort.Sort is    *)
(* not stable: coins of equal value-age come in any order) and pushed      *)
(* until the total satisfies the target.  A coin is [id, value, confs].    *)
(***************************************************************************)
SelectorMaxInputs == 10000

ValueAge(c) == c.value * c.confs

\* The orders sort.Sort(sort.Reverse(byValueAge(coins))) can produce.
DescendingOrders(coins) ==
    {p \in Perms(Len(coins)) :
        \A i, j \in 1..Len(coins) :
            i < j => ValueAge(coins[p[i]]) >= ValueAge(coins[p[j]])}

\* coinset.satisfiesTargetValue
satisfiesTargetValue(targetValue, minChange, totalValue) ==
    totalValue = targetValue \/ totalValue >= targetValue + minChange

TotalValue(cs) == SumSeq([i \in 1..Len(cs) |-> cs[i].value])

\* MinIndexCoinSelector.CoinSelect over the sorted coins: the shortest
\* non-empty prefix that satisfies the target, or no selection.
CoinSelect(targetValue, sorted) ==
    LET ok(n) == /\ n <= SelectorMaxInputs
                 /\ satisfiesTargetValue(targetValue, 0, TotalValue(SubSeq(sorted, 1, n)))
        ns == {n \in 1..Len(sorted) : ok(n)}
    IN  IF ns = {} THEN [err |-> TRUE, coins |-> <<>>]
        ELSE LET n == CHOOSE k \in ns : \A m \in ns : k <= m
             IN  [err |-> FALSE, coins |-> SubSeq(sorted, 1, n)]

(***************************************************************************)
(* The wallet operations that start with `<-w.initChan`, and the one       *)
(* signing operation that does not.                                        *)
(***************************************************************************)
GatedOps ==
    {"Balance", "CurrentAddress", "NewAddress", "Spend", "Multisign", "SweepAddress"}

UngatedOps == {"CreateMultisigSignature"}

\* The operations the specification calls chain-dependent.
ChainOps == GatedOps \cup UngatedOps

\* Scripts handed to AddWatchedScript: two that decode to an address and
\* one that ExtractPkScriptAddrs rejects.
WatchScripts == {"s1", "s2", "bad"}

\* ExtractPkScriptAddrs(script, params): the address, or an error.
ExtractPkScriptAddrs(script) ==
    IF script = "bad" THEN [err |-> TRUE, addr |-> "none"]
    ELSE [err |-> FALSE, addr |-> script]

VARIABLES
    initOpen,       \* initChan has been closed
    startPc,        \* position of Start()
    failedPolls,    \* GetBlockCount polls that returned an error
    tickerActive,   \* the 60 s ticker is created and not stopped
    tickBuffered,   \* a tick sits in ticker.C (capacity 1)
    fatal,          \* log.Fatal("Failed to connect to zend") ran: process exit
    addrsToWatch,   \* w.addrsToWatch
    flushPc,        \* position of the goroutine addQueuedWatchAddresses
    flushSnap,      \* the slice value the range loop iterates
    flushIdx,       \* next index of the range loop
    importLog,      \* importaddress requests sent to the node, in order
    acceptedClosed, \* addresses whose call returned nil while the gate was closed
    pc,             \* per thread: position in its current call
    op,             \* per thread: the operation being called
    arg,            \* per thread: the address of an AddWatchedScript call
    tmp,            \* per thread: the slice value read by append
    ncalls,         \* calls issued so far, over all threads
    \* ---- the sequential machine of one fund-moving call ----
    utxos,          \* the node's listunspent reply
    opName,         \* the operation called
    opPc,           \* its position
    coins,          \* buildTx: the gathered coins (keys of coinMap)
    outputs,        \* NewUnsignedTransaction: the requested outputs
    feePerKb,       \* NewUnsignedTransaction: the fee rate
    targetAmount,   \* NewUnsignedTransaction: sum of the requested outputs
    targetFee,      \* NewUnsignedTransaction: the fee target of the loop
    iters,          \* NewUnsignedTransaction: iterations that did `continue`
    lastFetch,      \* what the last fetchInputs call was asked and returned
    authored,       \* the AuthoredTx returned by NewUnsignedTransaction
    changeInvoked,  \* fetchChange was called
    tx,             \* the transaction being signed / signed
    signedOk,       \* the signing step completed every input
    msCall,         \* the multisig call's arguments
    sigs1,          \* CreateMultisigSignature's result for party A
    sigs2,          \* CreateMultisigSignature's result for party B
    sent,           \* transactions handed to SendRawTransaction, in order
    result,         \* what the call returned
    bump,           \* BumpFee: its argument, the node's replies, the output found
    \* ---- calls that move no funds ----
    feeLog,         \* GetFeePerByte calls: level, oracle queries, reply, result
    scriptLog,      \* GenerateMultisigScript calls: arguments, node replies, result
    rateMu,         \* ZenCashPriceFetcher's mutex: "free" or the thread holding it
    rateCache,      \* z.cache: currency -> rate, 0 for a key not in the map
    ratePc,         \* position of run() and of the caller of the rate getters
    rateOp,         \* the getter the caller is in, with its arguments
    ratePending,    \* per thread: decoded entries decode() has still to store
    rateResult,     \* what the caller's last getter returned
    rateCalls,      \* getter calls made
    refreshes,      \* periodic refreshes started by run()
    storeLock,      \* the lock MessagesDB shares with the other stores: 0 or its holder
    storeRows,      \* the messages table, in rowid order
    storePc,        \* per thread: position in its message-store call
    storeOp,        \* per thread: the call it is in, with its arguments
    storeRes,       \* per thread: what its last call returned
    storeCalls,     \* message-store calls made
    storeOpenTx,    \* transactions Put began and left without Commit or Rollback
    lastPut         \* per messageID: message and peerID of the last Put that returned nil

rateVars == <<rateMu, rateCache, ratePc, rateOp, ratePending, rateResult, rateCalls,
              refreshes>>
storeVars == <<storeLock, storeRows, storePc, storeOp, storeRes, storeCalls,
              storeOpenTx, lastPut>>
auxVars == <<feeLog, scriptLog, rateVars, storeVars>>

fundVars == <<utxos, opName, opPc, coins, outputs, feePerKb, targetAmount, targetFee,
              iters, lastFetch, authored, changeInvoked, tx, signedOk, msCall,
              sigs1, sigs2, sent, result, bump>>

opVars == <<fundVars, auxVars>>

gateVars == <<initOpen, startPc, failedPolls, tickerActive, tickBuffered, fatal,
              addrsToWatch, flushPc, flushSnap, flushIdx, importLog,
              acceptedClosed, pc, op, arg, tmp, ncalls>>

vars == <<gateVars, opVars>>

GateInit ==
    /\ initOpen = FALSE
    /\ startPc = "idle"
    /\ failedPolls = 0
    /\ tickerActive = FALSE
    /\ tickBuffered = FALSE
    /\ fatal = FALSE
    /\ addrsToWatch = <<>>
    /\ flushPc = "none"
    /\ flushSnap = <<>>
    /\ flushIdx = 1
    /\ importLog = <<>>
    /\ acceptedClosed = <<>>
    /\ pc = [t \in Threads |-> "idle"]
    /\ op = [t \in Threads |-> "none"]
    /\ arg = [t \in Threads |-> "none"]
    /\ tmp = [t \in Threads |-> <<>>]
    /\ ncalls = 0

threadVars == <<pc, op, arg, tmp, ncalls>>
startVars == <<startPc, failedPolls, tickerActive>>
flushVars == <<flushPc, flushSnap, flushIdx>>

(***************************************************************************)
(* Start(): create the ticker, poll GetBlockCount until it succeeds, stop  *)
(* the ticker, close initChan, spawn the flush of the watch queue.         *)
(***************************************************************************)
StartBegin ==
    /\ ~fatal
    /\ UNCHANGED opVars
    /\ startPc = "idle"
    /\ startPc' = "polling"
    /\ tickerActive' = TRUE
    /\ UNCHANGED <<initOpen, failedPolls, tickBuffered, fatal, addrsToWatch,
                   flushVars, importLog, acceptedClosed, threadVars>>

PollFail ==
    /\ ~fatal
    /\ UNCHANGED opVars
    /\ startPc = "polling"
    /\ failedPolls < MaxFailedPolls
    /\ failedPolls' = failedPolls + 1
    /\ UNCHANGED <<initOpen, startPc, tickerActive, tickBuffered, fatal,
                   addrsToWatch, flushVars, importLog, acceptedClosed, threadVars>>

PollOk ==
    /\ ~fatal
    /\ UNCHANGED opVars
    /\ startPc = "polling"
    /\ startPc' = "stopTicker"
    /\ UNCHANGED <<initOpen, failedPolls, tickerActive, tickBuffered, fatal,
                   addrsToWatch, flushVars, importLog, acceptedClosed, threadVars>>

TickerStop ==
    /\ ~fatal
    /\ UNCHANGED opVars
    /\ startPc = "stopTicker"
    /\ startPc' = "closeGate"
    /\ tickerActive' = FALSE
    /\ UNCHANGED <<initOpen, failedPolls, tickBuffered, fatal, addrsToWatch,
                   flushVars, importLog, acceptedClosed, threadVars>>

CloseInitChan ==
    /\ ~fatal
    /\ UNCHANGED opVars
    /\ startPc = "closeGate"
    /\ startPc' = "spawnFlush"
    /\ initOpen' = TRUE
    /\ UNCHANGED <<failedPolls, tickerActive, tickBuffered, fatal, addrsToWatch,
                   flushVars, importLog, acceptedClosed, threadVars>>

SpawnFlush ==
    /\ ~fatal
    /\ UNCHANGED opVars
    /\ startPc = "spawnFlush"
    /\ startPc' = "done"
    /\ flushPc' = "spawned"
    /\ UNCHANGED <<initOpen, failedPolls, tickerActive, tickBuffered, fatal,
                   addrsToWatch, flushSnap, flushIdx, importLog, acceptedClosed,
                   threadVars>>

\* The ticker's period elapses while the ticker is running: a tick is put
\* in ticker.C.
TickerFire ==
    /\ ~fatal
    /\ UNCHANGED opVars
    /\ tickerActive
    /\ ~tickBuffered
    /\ tickBuffered' = TRUE
    /\ UNCHANGED <<initOpen, startVars, fatal, addrsToWatch, flushVars,
                   importLog, acceptedClosed, threadVars>>

\* The goroutine `for range ticker.C { log.Fatal(...) }` receives the tick.
FatalOnTick ==
    /\ ~fatal
    /\ UNCHANGED opVars
    /\ tickBuffered
    /\ tickBuffered' = FALSE
    /\ fatal' = TRUE
    /\ UNCHANGED <<initOpen, startVars, addrsToWatch, flushVars, importLog,
                   acceptedClosed, threadVars>>

(***************************************************************************)
(* addQueuedWatchAddresses(): `for _, addr := range w.addrsToWatch`        *)
(* evaluates the slice once, then registers each element.                  *)
(***************************************************************************)
FlushBegin ==
    /\ ~fatal
    /\ UNCHANGED opVars
    /\ flushPc = "spawned"
    /\ flushPc' = "run"
    /\ flushSnap' = addrsToWatch
    /\ flushIdx' = 1
    /\ UNCHANGED <<initOpen, startVars, tickBuffered, fatal, addrsToWatch,
                   importLog, acceptedClosed, threadVars>>

FlushStep ==
    /\ ~fatal
    /\ UNCHANGED opVars
    /\ flushPc = "run"
    /\ flushIdx <= Len(flushSnap)
    /\ importLog' = Append(importLog, [addr |-> flushSnap[flushIdx], via |-> "flush"])
    /\ flushIdx' = flushIdx + 1
    /\ UNCHANGED <<initOpen, startVars, tickBuffered, fatal, addrsToWatch,
                   flushPc, flushSnap, acceptedClosed, threadVars>>

FlushEnd ==
    /\ ~fatal
    /\ UNCHANGED opVars
    /\ flushPc = "run"
    /\ flushIdx > Len(flushSnap)
    /\ flushPc' = "done"
    /\ UNCHANGED <<initOpen, startVars, tickBuffered, fatal, addrsToWatch,
                   flushSnap, flushIdx, importLog, acceptedClosed, threadVars>>

(***************************************************************************)
(* A caller's thread invoking a wallet operation.                          *)
(***************************************************************************)
\* Whether operation o begins with the receive `<-w.initChan`.
WaitsOnInitChan(o) == o \in GatedOps

\* The call reaches its first statement: a receive on initChan suspends the
\* caller while the channel is open (not closed), and falls through once it
\* is closed; an operation without the receive starts its work at once.
CallOp(t, o) ==
    /\ ~fatal
    /\ UNCHANGED opVars
    /\ pc[t] = "idle"
    /\ ncalls < MaxCalls
    /\ op' = [op EXCEPT ![t] = o]
    /\ ncalls' = ncalls + 1
    /\ pc' = [pc EXCEPT ![t] =
                IF WaitsOnInitChan(o) /\ ~initOpen THEN "blocked" ELSE "working"]
    /\ UNCHANGED <<initOpen, startVars, tickBuffered, fatal, addrsToWatch,
                   flushVars, importLog, acceptedClosed, arg, tmp>>

\* A suspended receive completes once initChan is closed.
Wake(t) ==
    /\ ~fatal
    /\ UNCHANGED opVars
    /\ pc[t] = "blocked"
    /\ initOpen
    /\ pc' = [pc EXCEPT ![t] = "working"]
    /\ UNCHANGED <<initOpen, startVars, tickBuffered, fatal, addrsToWatch,
                   flushVars, importLog, acceptedClosed, op, arg, tmp, ncalls>>

\* The operation's work (node RPC, signature computation) ends; it returns.
Return(t) ==
    /\ ~fatal
    /\ UNCHANGED opVars
    /\ pc[t] = "working"
    /\ pc' = [pc EXCEPT ![t] = "idle"]
    /\ op' = [op EXCEPT ![t] = "none"]
    /\ UNCHANGED <<initOpen, startVars, tickBuffered, fatal, addrsToWatch,
                   flushVars, importLog, acceptedClosed, arg, tmp, ncalls>>

(***************************************************************************)
(* AddWatchedScript(script)                                                *)
(***************************************************************************)
AWSCall(t, script) ==
    /\ ~fatal
    /\ UNCHANGED opVars
    /\ pc[t] = "idle"
    /\ ncalls < MaxCalls
    /\ ncalls' = ncalls + 1
    /\ LET r == ExtractPkScriptAddrs(script) IN
         IF r.err
         THEN UNCHANGED <<pc, op, arg>>          \* return err
         ELSE /\ pc' = [pc EXCEPT ![t] = "aws_select"]
              /\ op' = [op EXCEPT ![t] = "AddWatchedScript"]
              /\ arg' = [arg EXCEPT ![t] = r.addr]
    /\ UNCHANGED <<initOpen, startVars, tickBuffered, fatal, addrsToWatch,
                   flushVars, importLog, acceptedClosed, tmp>>

\* select { case <-w.initChan: ...; default: ... }
AWSSelect(t) ==
    /\ ~fatal
    /\ UNCHANGED opVars
    /\ pc[t] = "aws_select"
    /\ pc' = [pc EXCEPT ![t] = IF initOpen THEN "aws_direct" ELSE "aws_read"]
    /\ UNCHANGED <<initOpen, startVars, tickBuffered, fatal, addrsToWatch,
                   flushVars, importLog, acceptedClosed, op, arg, tmp, ncalls>>

\* return w.addWatchedScript(addr): one importaddress request.
AWSDirect(t) ==
    /\ ~fatal
    /\ UNCHANGED opVars
    /\ pc[t] = "aws_direct"
    /\ importLog' = Append(importLog, [addr |-> arg[t], via |-> "direct"])
    /\ pc' = [pc EXCEPT ![t] = "idle"]
    /\ op' = [op EXCEPT ![t] = "none"]
    /\ arg' = [arg EXCEPT ![t] = "none"]
    /\ UNCHANGED <<initOpen, startVars, tickBuffered, fatal, addrsToWatch,
                   flushVars, acceptedClosed, tmp, ncalls>>

\* w.addrsToWatch = append(w.addrsToWatch, addr) is not atomic and is not
\* guarded by a lock: the slice is read ...
AWSRead(t) ==
    /\ ~fatal
    /\ UNCHANGED opVars
    /\ pc[t] = "aws_read"
    /\ tmp' = [tmp EXCEPT ![t] = addrsToWatch]
    /\ pc' = [pc EXCEPT ![t] = "aws_write"]
    /\ UNCHANGED <<initOpen, startVars, tickBuffered, fatal, addrsToWatch,
                   flushVars, importLog, acceptedClosed, op, arg, ncalls>>

\* ... and the extended slice is stored; the call returns nil.
AWSWrite(t) ==
    /\ ~fatal
    /\ UNCHANGED opVars
    /\ pc[t] = "aws_write"
    /\ addrsToWatch' = Append(tmp[t], arg[t])
    /\ acceptedClosed' = IF initOpen THEN acceptedClosed
                         ELSE Append(acceptedClosed, arg[t])
    /\ pc' = [pc EXCEPT ![t] = "idle"]
    /\ op' = [op EXCEPT ![t] = "none"]
    /\ arg' = [arg EXCEPT ![t] = "none"]
    /\ tmp' = [tmp EXCEPT ![t] = <<>>]
    /\ UNCHANGED <<initOpen, startVars, tickBuffered, fatal, flushVars,
                   importLog, ncalls>>

GateNext ==
    \/ StartBegin \/ PollFail \/ PollOk \/ TickerStop \/ CloseInitChan
    \/ SpawnFlush \/ TickerFire \/ FatalOnTick
    \/ FlushBegin \/ FlushStep \/ FlushEnd
    \/ \E t \in Threads :
        \/ \E o \in ChainOps : CallOp(t, o)
        \/ Wake(t)
        \/ Return(t)
        \/ \E s \in WatchScripts : AWSCall(t, s)
        \/ AWSSelect(t) \/ AWSDirect(t) \/ AWSRead(t) \/ AWSWrite(t)

(***************************************************************************)
(* The fund-moving operations, one call at a time, with the gate open.     *)
(* Transactions: a TxIn is [hash, index, sigScript], a TxOut is            *)
(* [Value, PkScript]; a signature script is a sequence of pushes           *)
(* [op, sig, script]; a signature is [key, idx, msg].                      *)
(***************************************************************************)
NilSig == [key |-> 0, idx |-> -1, msg |-> <<>>]
NoTx == [TxIn |-> <<>>, TxOut |-> <<>>]
NoAuthored == [present |-> FALSE, Tx |-> NoTx, TotalInput |-> 0, ChangeIndex |-> -1]
NoFetch == [called |-> FALSE, target |-> 0, err |-> FALSE, total |-> 0, n |-> 0]
NoResult == [done |-> FALSE, err |-> ""]
NoBump == [txid |-> 0, txReply |-> "none", listErr |-> FALSE, found |-> 0, Value |-> 0]
NoCall == [ins |-> <<>>, outs |-> <<>>, redeem |-> [id |-> 0, len |-> 0, parses |-> TRUE],
           feePerByte |-> 0, broadcast |-> FALSE]

Ok == [done |-> TRUE, err |-> ""]
Failed(e) == [done |-> TRUE, err |-> e]

\* Destination scripts built by PayToAddrScript: a pay-to-pubkey-hash and a
\* pay-to-script-hash script, both with the replay-protection payload.
AddrScripts == [P2PKH |-> [id |-> 1, len |-> P2PKHPkScriptSize],
                P2SH  |-> [id |-> 2, len |-> P2PKHPkScriptSize - 2]]

PayToAddrScript(addr) == AddrScripts[addr]

\* The unspent outputs the node may report (amounts in base units).
UtxoList ==
    << [value |-> 600,    confs |-> 1, spendable |-> TRUE],
       [value |-> 800,    confs |-> 1, spendable |-> TRUE],
       [value |-> 1003,   confs |-> 6, spendable |-> TRUE],
       [value |-> 1500,   confs |-> 2, spendable |-> TRUE],
       [value |-> 5000,   confs |-> 0, spendable |-> TRUE],
       [value |-> 100000, confs |-> 0, spendable |-> TRUE],
       [value |-> 5000,   confs |-> 3, spendable |-> FALSE] >>

\* Lists of at most MaxCoins reported outputs (as multisets).
UtxoChoices ==
    UNION {{s \in [1..n -> 1..Len(UtxoList)] : \A i \in 1..n : i > 1 => s[i-1] <= s[i]}
            : n \in 0..MaxCoins}

(***************************************************************************)
(* GetFeePerByte(feeLevel): reply is the node's answer to estimatefee.     *)
(***************************************************************************)
FeeLevels == {"PRIOIRTY", "NORMAL", "ECONOMIC", "FEE_BUMP"}

OracleReplies ==
    {[kind |-> "err", val |-> 0], [kind |-> "nan", val |-> 0]}
    \cup {[kind |-> "int", val |-> v] : v \in {-1, 0, 999, 1000}}

DefaultFee == 50

\* The confirmation target asked of the oracle; 0: the oracle is not asked.
FeeTarget(feeLevel) ==
    CASE feeLevel = "PRIOIRTY" -> 1
      [] feeLevel = "NORMAL" -> 3
      [] feeLevel = "ECONOMIC" -> 6
      [] OTHER -> 0

\* A GetFeePerByte that passes a non-positive reply on.
GetFeePerByte_nofallback(feeLevel, reply) ==
    IF FeeTarget(feeLevel) = 0 \/ reply.kind \in {"err", "nan"} THEN DefaultFee
    ELSE GoDiv(reply.val, 1000)

GetFeePerByte(feeLevel, reply) ==
    IF FeeTarget(feeLevel) = 0 THEN DefaultFee
    ELSE IF reply.kind = "err" THEN DefaultFee
    ELSE IF reply.kind = "nan" THEN DefaultFee
    ELSE IF reply.val <= 0 THEN DefaultFee
    ELSE GoDiv(reply.val, 1000)

MaxFeeCalls == 2

\* One call of GetFeePerByte: the oracle is asked for FeeTarget(feeLevel)
\* unless the switch took its default branch.
GetFeePerByteCall ==
    /\ Len(feeLog) < MaxFeeCalls
    /\ \E feeLevel \in FeeLevels, reply \in OracleReplies :
        LET nBlocks == FeeTarget(feeLevel)
        IN  feeLog' = Append(feeLog,
                [level |-> feeLevel,
                 queries |-> IF nBlocks = 0 THEN <<>> ELSE <<nBlocks>>,
                 reply |-> IF nBlocks = 0 THEN [kind |-> "none", val |-> 0] ELSE reply,
                 rate |-> GetFeePerByte(feeLevel, reply)])
    /\ UNCHANGED <<gateVars, fundVars, scriptLog, rateVars, storeVars>>

(***************************************************************************)
(* GenerateMultisigScript(): the keys are reduced to their compressed      *)
(* public keys, the reference block is the one 300 below the height that   *)
(* ChainTip reports, and the script and its script-hash address are built  *)
(* from keys, threshold, that block's hash and its number.                 *)
(***************************************************************************)
ReferenceDepth == 300

\* Lists of extended keys: pub is the public key a key stands for (0: the key's
\* public part does not parse), private tells a private extended key from
\* its neutered form.
KeyLists ==
    {<<[pub |-> 1, private |-> TRUE], [pub |-> 2, private |-> FALSE]>>,
     <<[pub |-> 1, private |-> FALSE], [pub |-> 2, private |-> FALSE]>>,
     <<[pub |-> 2, private |-> FALSE], [pub |-> 1, private |-> FALSE]>>,
     <<[pub |-> 1, private |-> FALSE], [pub |-> 0, private |-> FALSE]>>}

Thresholds == {1, 2, 3}

\* (timeout, timeoutKey) as the caller passes them.
TimeoutArgs == {[timeout |-> 0, timeoutKey |-> "nil"], [timeout |-> 1, timeoutKey |-> "key"]}

\* What the node answers during one call: the height GetInfo reports and
\* which of the calls fails, if any.
NodeReplies ==
    {[blocks |-> 300, fails |-> "none"], [blocks |-> 301, fails |-> "none"],
     [blocks |-> 301, fails |-> "GetInfo"], [blocks |-> 301, fails |-> "GetBestBlockHash"],
     [blocks |-> 301, fails |-> "GetBlockHash"], [blocks |-> 299, fails |-> "none"]}

\* ChainTip(): height 0 when GetInfo or GetBestBlockHash fails.
ChainTipHeight(node) ==
    IF node.fails \in {"GetInfo", "GetBestBlockHash"} THEN 0 ELSE node.blocks

\* rpcClient.GetBlockHash(n): the node has blocks 0..node.blocks.
GetBlockHash(node, n) ==
    IF node.fails = "GetBlockHash" \/ n < 0 \/ n > node.blocks
    THEN [err |-> TRUE, hash |-> <<>>]
    ELSE [err |-> FALSE, hash |-> <<"block", n>>]

\* key.ECPubKey() and btc.NewAddressPubKey(ecKey.SerializeCompressed()).
ECPubKey(key) == [err |-> key.pub = 0, pub |-> key.pub]

\* MultiSigScript(): threshold, the public keys in the order given, and the
\* reference block's hash and number; refused when the threshold exceeds
\* the number of keys.
MultiSigScript(addrPubKeys, threshold, blockHash, blockNumber) ==
    IF threshold > Len(addrPubKeys)
    THEN [err |-> TRUE, script |-> <<>>]
    ELSE [err |-> FALSE,
          script |-> <<threshold>> \o addrPubKeys \o <<Len(addrPubKeys)>>
                     \o blockHash \o <<blockNumber>>]

\* NewAddressScriptHash(): the address commits to the script's hash.
NewAddressScriptHash(redeemScript) == <<"hash160", redeemScript>>

NoScript == [err |-> "", addr |-> <<>>, redeemScript |-> <<>>]

GenerateMultisigScript(keys, threshold, timeout, timeoutKey, node) ==
    IF \E i \in 1..Len(keys) : ECPubKey(keys[i]).err
    THEN [NoScript EXCEPT !.err = "ECPubKey"]
    ELSE
    LET addrPubKeys == [i \in 1..Len(keys) |-> ECPubKey(keys[i]).pub]
        blockHeight == ChainTipHeight(node)
        blockNumber == blockHeight - ReferenceDepth
        blockHash == GetBlockHash(node, blockNumber)
    IN  IF blockHash.err THEN [NoScript EXCEPT !.err = "GetBlockHash"]
        ELSE
        LET ms == MultiSigScript(addrPubKeys, threshold, blockHash.hash, blockNumber)
        IN  IF ms.err THEN [NoScript EXCEPT !.err = "MultiSigScript"]
            ELSE [err |-> "",
                  addr |-> NewAddressScriptHash(ms.script),
                  redeemScript |-> ms.script]

MaxScriptCalls == 2

\* One call of GenerateMultisigScript; ChainTip waits for the gate.
GenerateMultisigScriptCall ==
    /\ initOpen
    /\ Len(scriptLog) < MaxScriptCalls
    /\ \E keys \in KeyLists, threshold \in Thresholds, ta \in TimeoutArgs,
          node \in NodeReplies :
        scriptLog' = Append(scriptLog,
            [keys |-> keys, threshold |-> threshold, timeout |-> ta.timeout,
             timeoutKey |-> ta.timeoutKey, node |-> node,
             result |-> GenerateMultisigScript(keys, threshold, ta.timeout,
                                               ta.timeoutKey, node)])
    /\ UNCHANGED <<gateVars, fundVars, feeLog, rateVars, storeVars>>

(***************************************************************************)
(* ZenCashPriceFetcher: run() refreshes the cache periodically through     *)
(* fetchCurrentRates(), which holds the mutex while a provider's decoder   *)
(* stores the rates one key at a time; the getters take the mutex for      *)
(* their own access, and GetAllRates returns z.cache itself.               *)
(***************************************************************************)
RateThreads == {"run", "caller"}

Currencies == {"USD", "EUR"}

\* The keys the decoders store under: OpenBazaarDecoder stores every key of
\* the reply but "timestamp", ZEN included.
CacheKeys == Currencies \cup {"ZEN"}

\* The "last" prices the OpenBazaar ticker reports; ZenLast is the "last"
\* of ZEN.
ZenLast == 2
LastPrices == {20, 40}

\* OpenBazaarDecoder.decode: cache[k] = price * (1 / zenRate); the prices
\* drawn are multiples of zenRate, for which the product is exact.
DecodedRate(price, zenRate) == price \div zenRate

\* The exchanges' decoders: cache[k] = v * rate, v the bitcoin price of k
\* and rate the exchange's last ZEN/BTC price.
BtcPrices == {5, 10}
ZenBtcLast == 2
ScaledRate(v, rate) == v * rate

\* z.providers: the OpenBazaar ticker first, then three exchanges.
NumProviders == 4

NothingToStore == [k \in CacheKeys |-> 0]

\* What provider i comes to before its decoder's store loop: "fail" when
\* the request, the JSON or a check ahead of the loop fails, else the value
\* to decode per key (0: the key is not in the reply). In the ticker's
\* reply an entry may be malformed (-1: not an object with a float "last"),
\* and when that reply is JSON but not an object, OpenBazaarDecoder's
\* unchecked `dat.(map[string]interface{})` panics ("panic"); the exchanges'
\* decoders check the assertion and return an error ("fail").
ProviderReplies(i) ==
    {[kind |-> "fail", data |-> NothingToStore]}
    \cup IF i = 1
         THEN {[kind |-> "panic", data |-> NothingToStore]}
              \cup
              {[kind |-> "data", data |-> [d EXCEPT !["ZEN"] = ZenLast]] :
                  d \in [CacheKeys -> LastPrices \cup {-1}]}
         ELSE {[kind |-> "data", data |-> [d EXCEPT !["ZEN"] = 0]] :
                  d \in [CacheKeys -> BtcPrices]}

\* What the decoder of provider i stores for a value of its reply.
StoredRate(i, v) ==
    IF i = 1 THEN DecodedRate(v, ZenLast) ELSE ScaledRate(v, ZenBtcLast)

RateOps ==
    {[name |-> "GetExchangeRate", code |-> c, cacheOK |-> TRUE] : c \in Currencies}
    \cup {[name |-> "GetLatestRate", code |-> c, cacheOK |-> FALSE] : c \in Currencies}
    \cup {[name |-> "GetAllRates", code |-> "", cacheOK |-> b] : b \in BOOLEAN}

NoRateOp == [name |-> "", code |-> "", cacheOK |-> TRUE]

\* kind "map" is the cache map itself, handed to the caller.
NoRateResult == [kind |-> "none", price |-> 0]

\* NewZenCashPriceFetcher: empty cache, run() started.
RateInit ==
    /\ rateMu = "free"
    /\ rateCache = [k \in CacheKeys |-> 0]
    /\ ratePc = [t \in RateThreads |-> "idle"]
    /\ rateOp = NoRateOp
    /\ ratePending = [t \in RateThreads |-> <<>>]
    /\ rateResult = NoRateResult
    /\ rateCalls = 0
    /\ refreshes = 0

\* The process has ended: an unrecovered panic ran to its end, or the
\* runtime stopped it with "fatal error: concurrent map read and map write".
RateDead == \E t \in RateThreads : ratePc[t] \in {"panicked", "aborted"}

MaxRefreshes == 2
MaxRateCalls == 2

\* run(): the first refresh, then one per tick.
RunRefresh ==
    /\ ~RateDead
    /\ ratePc["run"] = "idle"
    /\ refreshes < MaxRefreshes
    /\ refreshes' = refreshes + 1
    /\ ratePc' = [ratePc EXCEPT !["run"] = "fetch_lock"]
    /\ UNCHANGED <<rateMu, rateCache, rateOp, ratePending, rateResult, rateCalls>>
    /\ UNCHANGED <<gateVars, fundVars, feeLog, scriptLog, storeVars>>

\* A caller enters one of the getters; GetLatestRate, and GetAllRates with
\* cacheOK false, refresh first.
RateCall ==
    /\ ~RateDead
    /\ ratePc["caller"] = "idle"
    /\ rateCalls < MaxRateCalls
    /\ rateCalls' = rateCalls + 1
    /\ \E o \in RateOps :
        /\ rateOp' = o
        /\ ratePc' = [ratePc EXCEPT !["caller"] =
                         IF o.name = "GetLatestRate"
                            \/ (o.name = "GetAllRates" /\ ~o.cacheOK)
                         THEN "fetch_lock" ELSE "lock"]
    /\ rateResult' = NoRateResult
    /\ UNCHANGED <<rateMu, rateCache, ratePending, refreshes>>
    /\ UNCHANGED <<gateVars, fundVars, feeLog, scriptLog, storeVars>>

\* fetchCurrentRates: z.Lock(), then the providers are asked in turn.
FetchLock ==
    \E t \in RateThreads :
        /\ ~RateDead
        /\ ratePc[t] = "fetch_lock"
        /\ rateMu = "free"
        /\ rateMu' = t
        /\ ratePending' = [ratePending EXCEPT ![t] =
                              <<[prov |-> 1, data |-> NothingToStore]>>]
        /\ ratePc' = [ratePc EXCEPT ![t] = "provider"]
        /\ UNCHANGED <<rateCache, rateOp, rateResult, rateCalls, refreshes>>
        /\ UNCHANGED <<gateVars, fundVars, feeLog, scriptLog, storeVars>>

\* provider.fetch() up to the decoder's store loop: on a failure the loop of
\* fetchCurrentRates goes on to the next provider.
ProviderFetch ==
    \E t \in RateThreads :
        /\ ~RateDead
        /\ ratePc[t] = "provider"
        /\ ratePending[t][1].prov <= NumProviders
        /\ \E reply \in ProviderReplies(ratePending[t][1].prov) :
            /\ reply.kind # "panic"
            /\ IF reply.kind = "fail"
               THEN /\ ratePending' = [ratePending EXCEPT ![t] =
                        <<[prov |-> ratePending[t][1].prov + 1,
                           data |-> NothingToStore]>>]
                    /\ UNCHANGED ratePc
               ELSE /\ ratePending' = [ratePending EXCEPT ![t] =
                        <<[prov |-> ratePending[t][1].prov, data |-> reply.data]>>]
                    /\ ratePc' = [ratePc EXCEPT ![t] = "decode"]
        /\ UNCHANGED <<rateMu, rateCache, rateOp, rateResult, rateCalls, refreshes>>
        /\ UNCHANGED <<gateVars, fundVars, feeLog, scriptLog, storeVars>>

\* The decoder panics: no further provider is asked, and the deferred
\* z.Unlock() of fetchCurrentRates runs as the panic unwinds. The process
\* goes on until the panic reaches the top of the goroutine or a recover, so
\* a thread waiting for the mutex may take it meanwhile.
ProviderPanic ==
    \E t \in RateThreads :
        /\ ~RateDead
        /\ ratePc[t] = "provider"
        /\ ratePending[t][1].prov <= NumProviders
        /\ \E reply \in ProviderReplies(ratePending[t][1].prov) :
            reply.kind = "panic"
        /\ rateMu' = "free"
        /\ ratePending' = [ratePending EXCEPT ![t] = <<>>]
        /\ ratePc' = [ratePc EXCEPT ![t] = "unwinding"]
        /\ UNCHANGED <<rateCache, rateOp, rateResult, rateCalls, refreshes>>
        /\ UNCHANGED <<gateVars, fundVars, feeLog, scriptLog, storeVars>>

\* The panic has left fetchCurrentRates. Nothing recovers in run(), so the
\* process ends; out of GetLatestRate or GetAllRates the panic reaches the
\* getter's caller, which recovers it or lets the process end.
PanicUnwound ==
    \E t \in RateThreads :
        /\ ~RateDead
        /\ ratePc[t] = "unwinding"
        /\ IF t = "run"
           THEN /\ ratePc' = [ratePc EXCEPT ![t] = "panicked"]
                /\ UNCHANGED <<rateResult, rateOp>>
           ELSE /\ \E recovered \in BOOLEAN :
                    ratePc' = [ratePc EXCEPT ![t] =
                                  IF recovered THEN "idle" ELSE "panicked"]
                /\ rateResult' = [kind |-> "panic", price |-> 0]
                /\ rateOp' = NoRateOp
        /\ UNCHANGED <<rateMu, rateCache, ratePending, rateCalls, refreshes>>
        /\ UNCHANGED <<gateVars, fundVars, feeLog, scriptLog, storeVars>>

\* The keys of the reply the decoder's `for k, v := range` has not reached.
KeysLeft(t) ==
    IF ratePending[t] = <<>> THEN {}
    ELSE {k \in CacheKeys : ratePending[t][1].data[k] # 0}

\* One round of the decoder's loop, in the map's iteration order, which is
\* any order: `cache[k] = ...`, or, at a malformed entry, the return of the
\* error, which leaves the keys stored so far in the cache and sends
\* fetchCurrentRates on to the next provider.
DecodeStore ==
    \E t \in RateThreads :
        /\ ~RateDead
        /\ ratePc[t] = "decode"
        /\ \E k \in KeysLeft(t) :
            LET p == ratePending[t][1] IN
            IF p.data[k] < 0
            THEN /\ ratePending' = [ratePending EXCEPT ![t] =
                        <<[prov |-> p.prov + 1, data |-> NothingToStore]>>]
                 /\ ratePc' = [ratePc EXCEPT ![t] = "provider"]
                 /\ UNCHANGED rateCache
            ELSE /\ rateCache' = [rateCache EXCEPT ![k] = StoredRate(p.prov, p.data[k])]
                 /\ ratePending' = [ratePending EXCEPT ![t] =
                        <<[p EXCEPT !.data[k] = 0]>>]
                 /\ UNCHANGED ratePc
        /\ UNCHANGED <<rateMu, rateOp, rateResult, rateCalls, refreshes>>
        /\ UNCHANGED <<gateVars, fundVars, feeLog, scriptLog, storeVars>>

\* Thread t is inside a decoder's loop with a `cache[k] = ...` still to do.
StoresPending(t) ==
    /\ ratePc[t] = "decode"
    /\ \E k \in KeysLeft(t) : ratePending[t][1].data[k] > 0

\* Every provider has failed.
FetchFailed(t) ==
    /\ ratePc[t] = "provider"
    /\ ratePending[t][1].prov > NumProviders

\* fetchCurrentRates returns (deferred z.Unlock()): nil after a decoder
\* returned nil, an error when every provider failed. GetAllRates passes
\* the error on; run() and GetLatestRate ignore it.
FetchUnlock ==
    \E t \in RateThreads :
        /\ ~RateDead
        /\ \/ ratePc[t] = "decode" /\ KeysLeft(t) = {}
           \/ FetchFailed(t)
        /\ rateMu' = "free"
        /\ ratePending' = [ratePending EXCEPT ![t] = <<>>]
        /\ IF t = "run"
           THEN /\ ratePc' = [ratePc EXCEPT ![t] = "idle"]
                /\ UNCHANGED <<rateResult, rateOp>>
           ELSE IF rateOp.name = "GetAllRates" /\ FetchFailed(t)
           THEN /\ ratePc' = [ratePc EXCEPT ![t] = "idle"]
                /\ rateResult' = [kind |-> "error", price |-> 0]
                /\ rateOp' = NoRateOp
           ELSE /\ ratePc' = [ratePc EXCEPT ![t] = "lock"]
                /\ UNCHANGED <<rateResult, rateOp>>
        /\ UNCHANGED <<rateCache, rateCalls, refreshes>>
        /\ UNCHANGED <<gateVars, fundVars, feeLog, scriptLog, storeVars>>

\* The getter's own z.Lock().
GetterLock ==
    /\ ~RateDead
    /\ ratePc["caller"] = "lock"
    /\ rateMu = "free"
    /\ rateMu' = "caller"
    /\ ratePc' = [ratePc EXCEPT !["caller"] = "locked"]
    /\ UNCHANGED <<rateCache, rateOp, ratePending, rateResult, rateCalls, refreshes>>
    /\ UNCHANGED <<gateVars, fundVars, feeLog, scriptLog, storeVars>>

\* GetExchangeRate and GetLatestRate look the code up and return the price
\* or "Currency not tracked"; GetAllRates returns z.cache. The deferred
\* z.Unlock() runs as the getter returns.
GetterReturn ==
    /\ ~RateDead
    /\ ratePc["caller"] = "locked"
    /\ rateMu' = "free"
    /\ IF rateOp.name = "GetAllRates"
       THEN /\ rateResult' = [kind |-> "map", price |-> 0]
            /\ ratePc' = [ratePc EXCEPT !["caller"] = "has_map"]
            /\ UNCHANGED rateOp
       ELSE /\ rateResult' = IF rateCache[rateOp.code] = 0
                             THEN [kind |-> "error", price |-> 0]
                             ELSE [kind |-> "price", price |-> rateCache[rateOp.code]]
            /\ ratePc' = [ratePc EXCEPT !["caller"] = "idle"]
            /\ rateOp' = NoRateOp
    /\ UNCHANGED <<rateCache, ratePending, rateCalls, refreshes>>
    /\ UNCHANGED <<gateVars, fundVars, feeLog, scriptLog, storeVars>>

\* The caller of GetAllRates reads a rate out of the map it was given, with
\* no lock held. While another thread is storing into the map the read and
\* a store may overlap: the read then yields a value, or the runtime sees
\* the map being written and stops the process ("fatal error: concurrent
\* map read and map write"), which no recover catches.
UseRates ==
    /\ ~RateDead
    /\ ratePc["caller"] = "has_map"
    /\ \/ /\ \E k \in CacheKeys :
                rateResult' = [kind |-> "read", price |-> rateCache[k]]
          /\ ratePc' = [ratePc EXCEPT !["caller"] = "idle"]
       \/ /\ \E t \in RateThreads \ {"caller"} : StoresPending(t)
          /\ rateResult' = [kind |-> "fatal", price |-> 0]
          /\ ratePc' = [ratePc EXCEPT !["caller"] = "aborted"]
    /\ rateOp' = NoRateOp
    /\ UNCHANGED <<rateMu, rateCache, ratePending, rateCalls, refreshes>>
    /\ UNCHANGED <<gateVars, fundVars, feeLog, scriptLog, storeVars>>

RatesNext ==
    \/ RunRefresh
    \/ RateCall
    \/ FetchLock
    \/ ProviderFetch
    \/ ProviderPanic
    \/ PanicUnwound
    \/ DecodeStore
    \/ FetchUnlock
    \/ GetterLock
    \/ GetterReturn
    \/ UseRates

(***************************************************************************)
(* MessagesDB: Put, GetByOrderIDType and GetByMessageIDType each take the  *)
(* store's lock on entry and release it on return (deferred Unlock); the   *)
(* message is kept in the row as its encoding/json form.  pb.Message,      *)
(* encoding/json, database/sql and the schema of the messages table are    *)
(* not part of the source: each call into them that the code checks for an *)
(* error may return one, and where the source does not decide what they do *)
(* they are given the behaviour that favours the store's callers           *)
(* (InsertOrReplace, TxEnd, Marshal followed by Unmarshal).                *)
(***************************************************************************)
\* The threads calling into the store.
StoreThreads == {1, 2}

MessageIDs == {"m1", "m2"}
OrderIDs == {"o1"}
MessageTypes == {1}
PeerIDs == {"p1", "p2"}

\* pb.Message values: payload is <<>> for a nil pointer, else <<the Any>>.
PbMessages ==
    {[messageType |-> 0, payload |-> <<[type_url |-> "", value |-> <<>>]>>,
      requestId |-> 0, isResponse |-> TRUE],
     [messageType |-> 1, payload |-> <<[type_url |-> "t", value |-> <<7>>]>>,
      requestId |-> 5, isResponse |-> FALSE]}

ZeroMessage ==
    [messageType |-> 0, payload |-> <<>>, requestId |-> 0, isResponse |-> FALSE]

\* json.Marshal(msg) as Put receives it at line 39: an error and no bytes
\* when encoding/json refuses the message, else the bytes, kept as the
\* document of the message (never empty: a struct encodes to "{" ... "}").
Marshal(msg, refused) ==
    IF refused THEN [err |-> TRUE, bytes |-> <<>>]
    ELSE [err |-> FALSE, bytes |-> <<[doc |-> msg]>>]

\* json.Unmarshal(msg0, msg) into new(pb.Message) as the getters receive it
\* at lines 85 and 115: an error, or the message of the document.
Unmarshal(bytes, refused) ==
    IF refused THEN [err |-> TRUE, msg |-> ZeroMessage]
    ELSE [err |-> FALSE, msg |-> bytes[1].doc]

\* time.Now().Unix() at the Put; no query of the store reads created_at.
UnixNow == 1

\* Where the database fails during a Put, if anywhere; "ExecRollback" is a
\* failed Exec whose Rollback fails too. For the getters: Prepare, the Scan
\* of the row (other than for want of a row), or json.Unmarshal.
PutFailures == {"none", "Begin", "Prepare", "Exec", "ExecRollback", "Commit"}
GetFailures == {"none", "Prepare", "Scan", "Unmarshal"}

\* `insert or replace` (line 33) on the messages table. The table's schema
\* is not in the source; messageID is taken to be its unique key, so that a
\* row with the same messageID is deleted and the new row is added.
InsertOrReplace(rows, row) ==
    LET Other(r) == r.messageID # row.messageID
    IN  Append(SelectSeq(rows, Other), row)

\* The table after the transaction of a Put ended in `how`, given the table
\* it began on and the table with its writes applied. What a failed Commit
\* or Rollback leaves is the database's business, not the source's: the
\* writes are taken to be applied by a Commit that returned nil and by
\* nothing else.
TxEnd(rows, written, how) == IF how = "Commit" THEN written ELSE rows

\* Put under the lock: the error it returns, the table it leaves and the
\* transactions it has begun and left without Commit or Rollback. When
\* Begin or Prepare fails no statement has run; after a failed Prepare Put
\* returns with the transaction still open (34-37). A marshalling error is
\* printed (39-42) and Put carries on with msg0 nil. A failed Exec has
\* written nothing and is rolled back (53-59).
PutRows(rows, a, fail, refused) ==
    IF fail = "Begin" THEN [err |-> fail, rows |-> rows, open |-> 0]
    ELSE IF fail = "Prepare" THEN [err |-> fail, rows |-> rows, open |-> 1]
    ELSE
    LET msg0 == Marshal(a.msg, refused).bytes
        row == [messageID |-> a.messageID, orderID |-> a.orderID,
                message_type |-> a.mType, message |-> msg0,
                peerID |-> a.peerID, created_at |-> a.now]
        written == InsertOrReplace(rows, row)
    IN  IF fail = "Exec"
        THEN [err |-> fail, rows |-> TxEnd(rows, rows, "Rollback"), open |-> 0]
        ELSE IF fail = "ExecRollback"
        THEN [err |-> fail, rows |-> TxEnd(rows, rows, "RollbackFailed"), open |-> 0]
        ELSE IF fail = "Commit"
        THEN [err |-> fail, rows |-> TxEnd(rows, written, "CommitFailed"), open |-> 0]
        ELSE [err |-> "", rows |-> TxEnd(rows, written, "Commit"), open |-> 0]

NoRow == [err |-> "", msg |-> <<>>, peerID |-> ""]

\* The part the two getters share: Prepare, QueryRow(...).Scan of the first
\* matching row (sql.ErrNoRows when there is none), and the decoding of a
\* message column that is not empty; an empty one gives new(pb.Message).
QueryResult(matching, fail) ==
    IF fail = "Prepare" THEN [NoRow EXCEPT !.err = "Prepare"]
    ELSE IF fail = "Scan" THEN [NoRow EXCEPT !.err = "Scan"]
    ELSE IF matching = <<>> THEN [NoRow EXCEPT !.err = "ErrNoRows"]
    ELSE IF Len(matching[1].message) > 0
    THEN LET u == Unmarshal(matching[1].message, fail = "Unmarshal")
         IN  IF u.err THEN [NoRow EXCEPT !.err = "Unmarshal"]
             ELSE [err |-> "", msg |-> <<u.msg>>, peerID |-> matching[1].peerID]
    ELSE [err |-> "", msg |-> <<ZeroMessage>>, peerID |-> matching[1].peerID]

GetByMessageIDType(rows, messageID, fail) ==
    LET Match(r) == r.messageID = messageID
    IN  QueryResult(SelectSeq(rows, Match), fail)

GetByOrderIDType(rows, orderID, mType, fail) ==
    LET Match(r) == r.orderID = orderID /\ r.message_type = mType
    IN  QueryResult(SelectSeq(rows, Match), fail)

StoreOps ==
    {[name |-> "Put", messageID |-> i, orderID |-> o, mType |-> ty, peerID |-> p,
      msg |-> m, now |-> 0] :
        i \in MessageIDs, o \in OrderIDs, ty \in MessageTypes, p \in PeerIDs,
        m \in PbMessages}
    \cup {[name |-> "GetByMessageIDType", messageID |-> i, orderID |-> "", mType |-> 0,
           peerID |-> "", msg |-> ZeroMessage, now |-> 0] : i \in MessageIDs}
    \cup {[name |-> "GetByOrderIDType", messageID |-> "", orderID |-> o, mType |-> ty,
           peerID |-> "", msg |-> ZeroMessage, now |-> 0] :
             o \in OrderIDs, ty \in MessageTypes}

NoStoreOp ==
    [name |-> "", messageID |-> "", orderID |-> "", mType |-> 0, peerID |-> "",
     msg |-> ZeroMessage, now |-> 0]

\* last: what lastPut held for a getter's messageID when the getter ran.
NoStoreRes ==
    [name |-> "", messageID |-> "", err |-> "", msg |-> <<>>, peerID |-> "",
     last |-> <<>>]

\* NewMessageStore over an empty messages table.
StoreInit ==
    /\ storeLock = 0
    /\ storeRows = <<>>
    /\ storePc = [t \in StoreThreads |-> "idle"]
    /\ storeOp = [t \in StoreThreads |-> NoStoreOp]
    /\ storeRes = [t \in StoreThreads |-> NoStoreRes]
    /\ storeCalls = 0
    /\ storeOpenTx = 0
    /\ lastPut = [i \in MessageIDs |-> <<>>]

MaxStoreCalls == 3

\* A thread enters Put or one of the getters.
StoreCall ==
    \E t \in StoreThreads, o \in StoreOps :
        /\ storePc[t] = "idle"
        /\ storeCalls < MaxStoreCalls
        /\ storeCalls' = storeCalls + 1
        /\ storeOp' = [storeOp EXCEPT ![t] = o]
        /\ storePc' = [storePc EXCEPT ![t] = "lock"]
        /\ UNCHANGED <<storeLock, storeRows, storeRes, storeOpenTx, lastPut>>
        /\ UNCHANGED <<gateVars, fundVars, feeLog, scriptLog, rateVars>>

\* o.lock.Lock()
StoreLock ==
    \E t \in StoreThreads :
        /\ storePc[t] = "lock"
        /\ storeLock = 0
        /\ storeLock' = t
        /\ storePc' = [storePc EXCEPT ![t] = "locked"]
        /\ UNCHANGED <<storeRows, storeOp, storeRes, storeCalls, storeOpenTx, lastPut>>
        /\ UNCHANGED <<gateVars, fundVars, feeLog, scriptLog, rateVars>>

\* The body of Put and its return, which releases the lock.
PutReturn ==
    \E t \in StoreThreads, fail \in PutFailures, refused \in BOOLEAN :
        /\ storePc[t] = "locked"
        /\ storeOp[t].name = "Put"
        /\ LET a == [storeOp[t] EXCEPT !.now = UnixNow]
               r == PutRows(storeRows, a, fail, refused)
           IN  /\ storeRows' = r.rows
               /\ storeOpenTx' = storeOpenTx + r.open
               /\ storeRes' = [storeRes EXCEPT ![t] =
                      [name |-> "Put", messageID |-> a.messageID,
                       err |-> r.err, msg |-> <<>>, peerID |-> "",
                       last |-> <<>>]]
               /\ lastPut' = IF r.err = ""
                             THEN [lastPut EXCEPT ![a.messageID] =
                                      <<[msg |-> a.msg, peerID |-> a.peerID]>>]
                             ELSE lastPut
        /\ storeLock' = 0
        /\ storePc' = [storePc EXCEPT ![t] = "idle"]
        /\ storeOp' = [storeOp EXCEPT ![t] = NoStoreOp]
        /\ UNCHANGED storeCalls
        /\ UNCHANGED <<gateVars, fundVars, feeLog, scriptLog, rateVars>>

\* The body of GetByMessageIDType and its return.
GetByMessageIDTypeReturn ==
    \E t \in StoreThreads, fail \in GetFailures :
        /\ storePc[t] = "locked"
        /\ storeOp[t].name = "GetByMessageIDType"
        /\ LET a == storeOp[t]
               r == GetByMessageIDType(storeRows, a.messageID, fail)
           IN  storeRes' = [storeRes EXCEPT ![t] =
                   [name |-> a.name, messageID |-> a.messageID,
                    err |-> r.err, msg |-> r.msg, peerID |-> r.peerID,
                    last |-> lastPut[a.messageID]]]
        /\ storeLock' = 0
        /\ storePc' = [storePc EXCEPT ![t] = "idle"]
        /\ storeOp' = [storeOp EXCEPT ![t] = NoStoreOp]
        /\ UNCHANGED <<storeRows, storeCalls, storeOpenTx, lastPut>>
        /\ UNCHANGED <<gateVars, fundVars, feeLog, scriptLog, rateVars>>

\* The body of GetByOrderIDType and its return.
GetByOrderIDTypeReturn ==
    \E t \in StoreThreads, fail \in GetFailures :
        /\ storePc[t] = "locked"
        /\ storeOp[t].name = "GetByOrderIDType"
        /\ LET a == storeOp[t]
               r == GetByOrderIDType(storeRows, a.orderID, a.mType, fail)
           IN  storeRes' = [storeRes EXCEPT ![t] =
                   [name |-> a.name, messageID |-> "",
                    err |-> r.err, msg |-> r.msg, peerID |-> r.peerID,
                    last |-> <<>>]]
        /\ storeLock' = 0
        /\ storePc' = [storePc EXCEPT ![t] = "idle"]
        /\ storeOp' = [storeOp EXCEPT ![t] = NoStoreOp]
        /\ UNCHANGED <<storeRows, storeCalls, storeOpenTx, lastPut>>
        /\ UNCHANGED <<gateVars, fundVars, feeLog, scriptLog, rateVars>>

StoreNext ==
    \/ StoreCall
    \/ StoreLock
    \/ PutReturn
    \/ GetByMessageIDTypeReturn
    \/ GetByOrderIDTypeReturn

(***************************************************************************)
(* gatherCoins(): one coin per spendable reported output; failAt is the    *)
(* reported output whose resolution (txid or address decoding, script      *)
(* construction, key export) fails, 0 for none.                            *)
(***************************************************************************)
RECURSIVE SpendableCoins(_, _)
SpendableCoins(us, i) ==
    IF i > Len(us) THEN <<>>
    ELSE IF us[i].spendable
         THEN <<[id |-> i, value |-> us[i].value, confs |-> us[i].confs]>>
              \o SpendableCoins(us, i + 1)
         ELSE SpendableCoins(us, i + 1)

\* A pass that leaves out the output it cannot resolve.
gatherCoins_lenient(us, listErr, failAt) ==
    IF listErr THEN [err |-> TRUE, coins |-> <<>>]
    ELSE [err |-> FALSE,
          coins |-> SpendableCoins([i \in 1..Len(us) |->
                        IF i = failAt THEN [us[i] EXCEPT !.spendable = FALSE] ELSE us[i]], 1)]

\* On a failure the map built so far is returned along with the error.
gatherCoins(us, listErr, failAt) ==
    IF listErr THEN [err |-> TRUE, coins |-> <<>>]
    ELSE IF failAt \in 1..Len(us) /\ us[failAt].spendable
         THEN [err |-> TRUE, coins |-> SpendableCoins(SubSeq(us, 1, failAt - 1), 1)]
    ELSE [err |-> FALSE, coins |-> SpendableCoins(us, 1)]

(***************************************************************************)
(* buildTx's inputSource: select coins for the target and turn them into   *)
(* inputs; order is the order in which the selector's sort left the coins. *)
(***************************************************************************)
\* A source that hands back every coin it has when they fall short.
inputSource_partial(target, order, cs) ==
    LET sorted == [i \in 1..Len(cs) |-> cs[order[i]]]
        sel == CoinSelect(target, sorted)
        chosen == IF sel.err THEN sorted ELSE sel.coins
    IN  [err |-> FALSE, total |-> TotalValue(chosen),
         inputs |-> [i \in 1..Len(chosen) |->
                        [hash |-> chosen[i].id, index |-> 0, sigScript |-> <<>>]]]

inputSource(target, order, cs) ==
    LET sorted == [i \in 1..Len(cs) |-> cs[order[i]]]
        sel == CoinSelect(target, sorted)
    IN  IF sel.err THEN [err |-> TRUE, total |-> 0, inputs |-> <<>>]
        ELSE [err |-> FALSE, total |-> TotalValue(sel.coins),
              inputs |-> [i \in 1..Len(sel.coins) |->
                            [hash |-> sel.coins[i].id, index |-> 0, sigScript |-> <<>>]]]

(***************************************************************************)
(* NewUnsignedTransaction: the tests of one loop iteration.                *)
(***************************************************************************)
TargetOf(outs) == SumSeq([i \in 1..Len(outs) |-> outs[i].Value])

InitialTargetFee(outs, rate) ==
    FeeForSerializeSize(rate, EstimateSerializeSize(1, outs, TRUE, "P2PKH"))

MaxRequiredFee(nInputs, outs, rate) ==
    FeeForSerializeSize(rate, EstimateSerializeSize(nInputs, outs, TRUE, "P2PKH"))

\* if inputAmount < targetAmount+targetFee
FetchedTooLittle(inputAmount, tAmount, tFee) == inputAmount < tAmount + tFee

\* Variants of the fee test: never re-estimating, and re-estimating on equality.
FeeNotCovered_never(remainingAmount, maxRequiredFee) == FALSE

FeeNotCovered_le(remainingAmount, maxRequiredFee) == remainingAmount <= maxRequiredFee

\* if remainingAmount < maxRequiredFee
FeeNotCovered(remainingAmount, maxRequiredFee) == remainingAmount < maxRequiredFee

\* A change test without the dust rule.
ChangeWanted_nodust(changeAmount) == changeAmount # 0

\* if changeAmount != 0 && !txrules.IsDustAmount(changeAmount, P2PKHOutputSize, ...)
ChangeWanted(changeAmount) ==
    changeAmount # 0 /\ ~IsDustAmount(changeAmount, P2PKHOutputSize, DefaultRelayFeePerKb)

\* Replies of the change source: an error, a script of the canonical size,
\* a script one byte larger.
ChangeReplies ==
    { [err |-> TRUE,  script |-> [id |-> 0, len |-> 0]],
      [err |-> FALSE, script |-> [id |-> 3, len |-> P2PKHPkScriptSize]],
      [err |-> FALSE, script |-> [id |-> 4, len |-> P2PKHPkScriptSize + 1]] }

(***************************************************************************)
(* txsort.InPlaceSort (BIP 69): inputs by outpoint hash, then index;       *)
(* outputs by value, then script bytes.                                    *)
(***************************************************************************)
InputLess(a, b) == a.hash < b.hash \/ (a.hash = b.hash /\ a.index < b.index)

OutputLess(a, b) ==
    a.Value < b.Value \/ (a.Value = b.Value /\ a.PkScript.id < b.PkScript.id)

InPlaceSort(t) ==
    [TxIn |-> SortBy(InputLess, t.TxIn), TxOut |-> SortBy(OutputLess, t.TxOut)]

\* The signature script the node's signer or txscript.SignTxOutput leaves in
\* a single-signature input.
SignedScript(i) == <<[op |-> "DATA", sig |-> [key |-> 100, idx |-> i, msg |-> <<>>], script |-> 0]>>

SignInputs(t, which) ==
    [t EXCEPT !.TxIn = [i \in 1..Len(t.TxIn) |->
        IF i \in which THEN [t.TxIn[i] EXCEPT !.sigScript = SignedScript(i - 1)]
        ELSE t.TxIn[i]]]

AuxInit ==
    /\ feeLog = <<>>
    /\ scriptLog = <<>>
    /\ RateInit
    /\ StoreInit

OpInit ==
    /\ opName = "none"
    /\ opPc = "idle"
    /\ coins = <<>>
    /\ outputs = <<>>
    /\ feePerKb = 0
    /\ targetAmount = 0
    /\ targetFee = 0
    /\ iters = 0
    /\ lastFetch = NoFetch
    /\ authored = NoAuthored
    /\ changeInvoked = FALSE
    /\ tx = NoTx
    /\ signedOk = FALSE
    /\ msCall = NoCall
    /\ sigs1 = <<>>
    /\ sigs2 = <<>>
    /\ sent = <<>>
    /\ result = NoResult
    /\ bump = NoBump
    /\ AuxInit

msVars == <<msCall, sigs1, sigs2>>
nutVars == <<outputs, feePerKb, targetAmount, targetFee, iters, lastFetch,
             authored, changeInvoked>>

\* The call returns r.
Finish(r) ==
    /\ opPc' = "done"
    /\ result' = r

(***************************************************************************)
(* Spend(amount, addr, feeLevel) up to the call of NewUnsignedTransaction: *)
(* buildTx's block reference, dust check, gatherCoins, fee rate.           *)
(***************************************************************************)
SpendAmounts == {600, 700, 1000}

SpendBegin ==
    /\ opPc = "idle"
    /\ UNCHANGED <<gateVars, bump, auxVars>>
    /\ opName' = "Spend"
    /\ \E amount \in SpendAmounts, addr \in {"P2PKH", "P2SH"}, feeLevel \in FeeLevels,
          reply \in OracleReplies, tipErr \in BOOLEAN, listErr \in BOOLEAN,
          failAt \in 0..Len(utxos) :
        LET script == PayToAddrScript(addr)
            g == gatherCoins(utxos, listErr, failAt)
            rate == GetFeePerByte(feeLevel, reply) * 1000
            outs == <<[Value |-> amount, PkScript |-> script]>>
        IN  IF tipErr THEN
                /\ Finish(Failed("GetBlockHash"))
                /\ UNCHANGED <<coins, nutVars>>
            ELSE IF IsDustAmount(amount, script.len, DefaultRelayFeePerKb) THEN
                /\ Finish(Failed("ErrorDustAmount"))
                /\ UNCHANGED <<coins, nutVars>>
            ELSE IF g.err THEN
                /\ Finish(Failed("gatherCoins"))
                /\ UNCHANGED <<coins, nutVars>>
            ELSE
                /\ coins' = g.coins
                /\ outputs' = outs
                /\ feePerKb' = rate
                /\ targetAmount' = TargetOf(outs)
                /\ targetFee' = InitialTargetFee(outs, rate)
                /\ opPc' = "fetch"
                /\ UNCHANGED <<iters, lastFetch, authored, changeInvoked, result>>
    /\ UNCHANGED <<utxos, tx, signedOk, msVars, sent>>

(***************************************************************************)
(* NewUnsignedTransaction(outputs, feePerKb, fetchInputs, fetchChange)     *)
(* called directly, with buildTx's inputSource over the node's spendable   *)
(* coins.                                                                  *)
(***************************************************************************)
BuildValues == {700, 1000}
BuildRates == {0, 999, 1000}

OutputLists ==
    UNION {[1..n -> [Value : BuildValues, PkScript : {AddrScripts.P2PKH}]]
            : n \in 0..MaxOutputs}

BuildBegin ==
    /\ opPc = "idle"
    /\ UNCHANGED <<gateVars, bump, auxVars>>
    /\ opName' = "NewUnsignedTransaction"
    /\ \E outs \in OutputLists, rate \in BuildRates :
        /\ coins' = SpendableCoins(utxos, 1)
        /\ outputs' = outs
        /\ feePerKb' = rate
        /\ targetAmount' = TargetOf(outs)
        /\ targetFee' = InitialTargetFee(outs, rate)
        /\ opPc' = "fetch"
    /\ UNCHANGED <<utxos, iters, lastFetch, authored, changeInvoked, tx, signedOk,
                   msVars, sent, result>>

\* One iteration of the loop `for { ... }`.
NutIterate ==
    /\ opPc = "fetch"
    /\ UNCHANGED <<gateVars, bump, auxVars>>
    /\ \E order \in DescendingOrders(coins) :
        LET f == inputSource(targetAmount + targetFee, order, coins)
            maxRequiredFee == MaxRequiredFee(Len(f.inputs), outputs, feePerKb)
            remainingAmount == f.total - targetAmount
            changeAmount == f.total - targetAmount - maxRequiredFee
            l == Len(outputs)
        IN  /\ lastFetch' = [called |-> TRUE, target |-> targetAmount + targetFee,
                             err |-> f.err, total |-> f.total, n |-> Len(f.inputs)]
            /\ IF f.err THEN
                    /\ Finish(Failed("ErrorInsuffientFunds"))
                    /\ UNCHANGED <<targetFee, iters, authored, changeInvoked>>
               ELSE IF FetchedTooLittle(f.total, targetAmount, targetFee) THEN
                    /\ Finish(Failed("insufficient funds available to construct transaction"))
                    /\ UNCHANGED <<targetFee, iters, authored, changeInvoked>>
               ELSE IF FeeNotCovered(remainingAmount, maxRequiredFee) THEN
                    /\ targetFee' = maxRequiredFee
                    /\ iters' = iters + 1
                    /\ UNCHANGED <<opPc, result, authored, changeInvoked>>
               ELSE IF ChangeWanted(changeAmount) THEN
                    /\ changeInvoked' = TRUE
                    /\ UNCHANGED <<targetFee, iters>>
                    /\ \E ch \in ChangeReplies :
                       IF ch.err THEN
                            /\ Finish(Failed("fetchChange"))
                            /\ UNCHANGED authored
                       ELSE IF ch.script.len > P2PKHPkScriptSize THEN
                            /\ Finish(Failed("fee estimation requires change scripts no larger than P2PKH output scripts"))
                            /\ UNCHANGED authored
                       ELSE
                            /\ authored' =
                                [present |-> TRUE,
                                 Tx |-> [TxIn |-> f.inputs,
                                         TxOut |-> Append(outputs,
                                            [Value |-> changeAmount, PkScript |-> ch.script])],
                                 TotalInput |-> f.total,
                                 ChangeIndex |-> l]
                            /\ IF opName = "Spend"
                               THEN opPc' = "built" /\ UNCHANGED result
                               ELSE Finish(Ok)
               ELSE
                    /\ authored' = [present |-> TRUE,
                                    Tx |-> [TxIn |-> f.inputs, TxOut |-> outputs],
                                    TotalInput |-> f.total,
                                    ChangeIndex |-> -1]
                    /\ UNCHANGED <<targetFee, iters, changeInvoked>>
                    /\ IF opName = "Spend"
                       THEN opPc' = "built" /\ UNCHANGED result
                       ELSE Finish(Ok)
    /\ UNCHANGED <<utxos, opName, coins, outputs, feePerKb, targetAmount, tx, signedOk,
                   msVars, sent>>

(***************************************************************************)
(* buildTx after NewUnsignedTransaction: BIP 69 sort, then the node's      *)
(* signrawtransaction, whose reply is (tx, complete, err).                 *)
(***************************************************************************)
SignReplies == {"error", "incomplete", "complete"}

SpendSign ==
    /\ opPc = "built"
    /\ UNCHANGED <<gateVars, bump, auxVars>>
    /\ opName = "Spend"
    /\ \E reply \in SignReplies :
        LET sorted == InPlaceSort(authored.Tx)
            n == Len(sorted.TxIn)
        IN  IF reply = "error" THEN
                /\ Finish(Failed("Failed to sign transaction"))
                /\ UNCHANGED <<tx, signedOk>>
            ELSE
                \* `tx, _, err := ...`: the completeness flag is dropped.
                /\ tx' = SignInputs(sorted, IF reply = "complete" THEN 1..n ELSE 2..n)
                /\ signedOk' = (reply = "complete")
                /\ opPc' = "signed"
                /\ UNCHANGED result
    /\ UNCHANGED <<utxos, opName, coins, nutVars, msVars, sent>>

\* Spend: return w.rpcClient.SendRawTransaction(tx, false)
SpendSend ==
    /\ opPc = "signed"
    /\ UNCHANGED <<gateVars, bump, auxVars>>
    /\ opName = "Spend"
    /\ sent' = Append(sent, tx)
    /\ \E ok \in BOOLEAN : Finish(IF ok THEN Ok ELSE Failed("SendRawTransaction"))
    /\ UNCHANGED <<utxos, opName, coins, nutVars, tx, signedOk, msVars>>


(***************************************************************************)
(* SweepAddress(utxos, address, key, redeemScript, feeLevel)               *)
(***************************************************************************)
SweepValues == {100, 1000, 100000}

\* The swept outputs: wallet.Utxo values [hash, index, Value].
SweepLists ==
    UNION {{[i \in 1..n |-> [hash |-> n + 1 - i, index |-> 0, Value |-> v[i]]]
              : v \in [1..n -> SweepValues]} : n \in 1..MaxInputs}

SweepFeePerKbDefault == 50000

\* SweepAddress up to the signing loop; reply is the node's estimatefee(1),
\* tipErr the failure of GetBlockHash. addr is the destination: the address
\* passed in, or what CurrentAddress() returned for a nil argument, which is
\* a nil address ("nil") when the node's getaccountaddress fails or its
\* answer does not decode (380-387 drop those errors). PayToAddrScript
\* returns an error for a nil address and for an address of a type it does
\* not handle, both written "nil", and SweepAddress returns it (1013-1016).
SweepAddressBuild(us, addr, hasRedeem, reply, tipErr) ==
    LET script == IF addr \in DOMAIN AddrScripts THEN PayToAddrScript(addr)
                  ELSE [id |-> 0, len |-> 0]
        val == SumSeq([i \in 1..Len(us) |-> us[i].Value])
        inputs == [i \in 1..Len(us) |->
                    [hash |-> us[i].hash, index |-> us[i].index, sigScript |-> <<>>]]
        out == [Value |-> val, PkScript |-> script]
        txType == IF hasRedeem THEN "P2SH_1of2_Multisig" ELSE "P2PKH"
        estimatedSize == EstimateSerializeSize(Len(us), <<out>>, FALSE, txType)
        perKb == IF reply.val <= 0 THEN SweepFeePerKbDefault ELSE reply.val
        fee == estimatedSize * GoDiv(perKb, 1000)
        outVal == IF val - fee < 0 THEN 0 ELSE val - fee
    IN  IF tipErr THEN
            /\ Finish(Failed("GetBlockHash"))
            /\ UNCHANGED tx
        ELSE IF addr \notin DOMAIN AddrScripts THEN
            /\ Finish(Failed("PayToAddrScript"))
            /\ UNCHANGED tx
        ELSE IF reply.kind = "err" THEN
            /\ Finish(Failed("estimatefee"))
            /\ UNCHANGED tx
        ELSE IF reply.kind = "nan" THEN
            /\ Finish(Failed("strconv.Atoi"))
            /\ UNCHANGED tx
        ELSE
            /\ tx' = InPlaceSort([TxIn |-> inputs,
                                  TxOut |-> <<[out EXCEPT !.Value = outVal]>>])
            /\ opPc' = "built"
            /\ UNCHANGED result

\* A direct call of SweepAddress.
SweepBuild ==
    /\ opPc = "idle"
    /\ UNCHANGED <<gateVars, bump, auxVars>>
    /\ opName' = "SweepAddress"
    /\ \E us \in SweepLists, addr \in {"P2PKH", "P2SH", "nil"}, hasRedeem \in BOOLEAN,
          reply \in OracleReplies, tipErr \in BOOLEAN :
        SweepAddressBuild(us, addr, hasRedeem, reply, tipErr)
    /\ UNCHANGED <<utxos, coins, nutVars, signedOk, msVars, sent>>

\* The loop over tx.TxIn calling txscript.SignTxOutput.
SweepSign ==
    /\ opPc = "built"
    /\ UNCHANGED <<gateVars, bump, auxVars>>
    /\ opName \in {"SweepAddress", "BumpFee"}
    /\ \E ok \in BOOLEAN :
        IF ok THEN
            /\ tx' = SignInputs(tx, 1..Len(tx.TxIn))
            /\ signedOk' = TRUE
            /\ opPc' = "signed"
            /\ UNCHANGED result
        ELSE
            /\ Finish(Failed("Failed to sign transaction"))
            /\ UNCHANGED <<tx, signedOk>>
    /\ UNCHANGED <<utxos, opName, coins, nutVars, msVars, sent>>

SweepSend ==
    /\ opPc = "signed"
    /\ UNCHANGED <<gateVars, bump, auxVars>>
    /\ opName \in {"SweepAddress", "BumpFee"}
    /\ sent' = Append(sent, tx)
    /\ \E ok \in BOOLEAN : Finish(IF ok THEN Ok ELSE Failed("SendRawTransaction"))
    /\ UNCHANGED <<utxos, opName, coins, nutVars, tx, signedOk, msVars>>

(***************************************************************************)
(* BumpFee(txid).  An entry of the node's unspent list is                  *)
(* [txid, vout, value, confs, spendable, resolves]: value is the reported  *)
(* amount (a number of coins) times 10^8; resolves says that its script    *)
(* and address decode and that the node exports its key.                   *)
(***************************************************************************)
MaxUnspent == 2

SatoshiPerCoin == 100000000

BumpTxids == {1, 2}

BumpEntries ==
    [txid : BumpTxids, vout : {0}, value : {1000, 100000}, confs : {0, 2},
     spendable : {TRUE}, resolves : BOOLEAN]

\* Unspent lists: whatever ListUnspent may report, entry by entry.
BumpLists == UNION {[1..n -> BumpEntries] : n \in 0..MaxUnspent}

\* GetTransaction's replies: an error, or the transaction's confirmations.
BumpTxReplies == {[err |-> TRUE, confs |-> 0], [err |-> FALSE, confs |-> 0],
                  [err |-> FALSE, confs |-> 2]}

\* Value: int64(u.Amount / 100000000), where u.Amount is u.value / 10^8
\* coins: the quotient of u.value by 10^16, truncated.
BumpFeeValue(u) == GoDiv(GoDiv(u.value, SatoshiPerCoin), SatoshiPerCoin)

\* A scan that takes the first entry of the transaction whatever it reports.
BumpScan_unchecked(us, i, txid) ==
    IF \E k \in i..Len(us) : us[k].txid = txid
    THEN [kind |-> "found", idx |-> CHOOSE k \in i..Len(us) :
                    us[k].txid = txid /\ \A m \in i..(k - 1) : us[m].txid # txid]
    ELSE [kind |-> "notfound", idx |-> 0]

\* The loop of lines 757-792 from entry i on: the first entry of the
\* transaction that is confirmed ends it, one that does not resolve is
\* passed over, one that resolves is swept.
RECURSIVE BumpScan(_, _, _)
BumpScan(us, i, txid) ==
    IF i > Len(us) THEN [kind |-> "notfound", idx |-> 0]
    ELSE IF us[i].txid # txid THEN BumpScan(us, i + 1, txid)
    ELSE IF us[i].confs > 0 THEN [kind |-> "confirmed", idx |-> i]
    ELSE IF ~us[i].resolves THEN BumpScan(us, i + 1, txid)
    ELSE [kind |-> "found", idx |-> i]

\* BumpFee, and the SweepAddress it calls up to the signing loop. The call
\* passes a nil address (785), so the destination is CurrentAddress()'s
\* (1005): the wallet's pay-to-pubkey-hash address, or nil.
BumpFee ==
    /\ opPc = "idle"
    /\ UNCHANGED <<gateVars, auxVars>>
    /\ opName' = "BumpFee"
    /\ \E txid \in BumpTxids, txReply \in BumpTxReplies, listErr \in BOOLEAN,
          current \in {"P2PKH", "nil"}, reply \in OracleReplies, tipErr \in BOOLEAN :
        LET m == BumpScan(utxos, 1, txid)
            called == [txid |-> txid,
                       txReply |-> IF txReply.err THEN "err"
                                   ELSE IF txReply.confs > 0 THEN "confirmed"
                                   ELSE "unconfirmed",
                       listErr |-> listErr, found |-> 0, Value |-> 0]
        IN  IF txReply.err THEN
                /\ Finish(Failed("GetTransaction"))
                /\ bump' = [called EXCEPT !.listErr = FALSE]
                /\ UNCHANGED tx
            ELSE IF txReply.confs > 0 THEN
                /\ Finish(Failed("BumpFeeAlreadyConfirmedError"))
                /\ bump' = [called EXCEPT !.listErr = FALSE]
                /\ UNCHANGED tx
            ELSE IF listErr THEN
                /\ Finish(Failed("ListUnspent"))
                /\ bump' = called
                /\ UNCHANGED tx
            ELSE IF m.kind = "confirmed" THEN
                /\ Finish(Failed("BumpFeeAlreadyConfirmedError"))
                /\ bump' = called
                /\ UNCHANGED tx
            ELSE IF m.kind = "notfound" THEN
                /\ Finish(Failed("BumpFeeNotFoundError"))
                /\ bump' = called
                /\ UNCHANGED tx
            ELSE
                LET u == utxos[m.idx]
                    utxo == [hash |-> u.txid, index |-> u.vout, Value |-> BumpFeeValue(u)]
                IN  /\ bump' = [called EXCEPT !.found = m.idx, !.Value = utxo.Value]
                    /\ SweepAddressBuild(<<utxo>>, current, FALSE, reply, tipErr)
    /\ UNCHANGED <<utxos, coins, nutVars, signedOk, msVars, sent>>

(***************************************************************************)
(* The multisignature protocol.  An input is [OutpointHash, OutpointIndex] *)
(* with OutpointHash = [key, len]: the bytes, abstracted to a sort key,    *)
(* and their number.  A redeem script is [id, len, parses].  A key is      *)
(* [id, isPrivate].                                                        *)
(***************************************************************************)
\* chainhash.NewHashFromStr(hex.EncodeToString(h)) fails on more than 64
\* hex digits.
HashDecodes(h) == 2 * h.len <= 64

MsHashes == {[key |-> 1, len |-> 32], [key |-> 2, len |-> 32], [key |-> 3, len |-> 33]}

\* Outpoints: two of one transaction, one of another, one whose hash is
\* too long to decode.
MsOutpoints ==
    {o \in [OutpointHash : MsHashes, OutpointIndex : {0, 1}] :
        o.OutpointIndex = 1 => o.OutpointHash.key = 1}

MsInputLists == UNION {[1..n -> MsOutpoints] : n \in 1..MaxInputs}

MsOutputLists ==
    UNION {[1..n -> [Value : {500, 20000},
                     ScriptPubKey : {AddrScripts.P2PKH, AddrScripts.P2SH}]]
            : n \in 0..MaxOutputs}

RedeemScripts ==
    { [id |-> 7, len |-> 143, parses |-> TRUE],
      [id |-> 8, len |-> 551, parses |-> TRUE],
      [id |-> 9, len |-> 1,   parses |-> FALSE] }

MsRates == {0, 1, 50}

KeyA == [id |-> 1, isPrivate |-> TRUE]
KeyB == [id |-> 2, isPrivate |-> TRUE]
KeyPub == [id |-> 3, isPrivate |-> FALSE]

\* The unsigned transaction of lines 871-895: inputs from ins, outputs from
\* outs, the fee taken off every output in equal parts, BIP 69 order.
SignerSkeleton(ins, outs, feePerByte) ==
    IF \E i \in 1..Len(ins) : ~HashDecodes(ins[i].OutpointHash)
    THEN [err |-> "NewHashFromStr", Tx |-> NoTx]
    ELSE IF Len(outs) = 0
    THEN [err |-> "panic: integer divide by zero", Tx |-> NoTx]
    ELSE
        LET txIn == [i \in 1..Len(ins) |->
                        [hash |-> ins[i].OutpointHash.key, index |-> ins[i].OutpointIndex,
                         sigScript |-> <<>>]]
            txOut == [i \in 1..Len(outs) |->
                        [Value |-> outs[i].Value, PkScript |-> outs[i].ScriptPubKey]]
            estimatedSize ==
                EstimateSerializeSize(Len(ins), txOut, FALSE, "P2SH_2of3_Multisig")
            fee == estimatedSize * feePerByte
            feePerOutput == GoDiv(fee, Len(txOut))
        IN  [err |-> "",
             Tx |-> InPlaceSort(
                [TxIn |-> txIn,
                 TxOut |-> [i \in 1..Len(txOut) |->
                              [txOut[i] EXCEPT !.Value = @ - feePerOutput]]])]

\* A combiner that leaves inputs and outputs in the order it was given them.
CombinerSkeleton_unsorted(ins, outs, feePerByte) ==
    IF \E i \in 1..Len(ins) : ~HashDecodes(ins[i].OutpointHash)
    THEN [err |-> "NewHashFromStr", Tx |-> NoTx]
    ELSE IF Len(outs) = 0
    THEN [err |-> "panic: integer divide by zero", Tx |-> NoTx]
    ELSE
        LET txOut == [i \in 1..Len(outs) |->
                        [Value |-> outs[i].Value, PkScript |-> outs[i].ScriptPubKey]]
            fee == EstimateSerializeSize(Len(ins), txOut, FALSE, "P2SH_2of3_Multisig")
                   * feePerByte
        IN  [err |-> "",
             Tx |-> [TxIn |-> [i \in 1..Len(ins) |->
                        [hash |-> ins[i].OutpointHash.key, index |-> ins[i].OutpointIndex,
                         sigScript |-> <<>>]],
                     TxOut |-> [i \in 1..Len(txOut) |->
                        [txOut[i] EXCEPT !.Value = @ - GoDiv(fee, Len(txOut))]]]]

\* The unsigned transaction of lines 929-953.
CombinerSkeleton(ins, outs, feePerByte) ==
    IF \E i \in 1..Len(ins) : ~HashDecodes(ins[i].OutpointHash)
    THEN [err |-> "NewHashFromStr", Tx |-> NoTx]
    ELSE IF Len(outs) = 0
    THEN [err |-> "panic: integer divide by zero", Tx |-> NoTx]
    ELSE
        LET txIn == [i \in 1..Len(ins) |->
                        [hash |-> ins[i].OutpointHash.key, index |-> ins[i].OutpointIndex,
                         sigScript |-> <<>>]]
            txOut == [i \in 1..Len(outs) |->
                        [Value |-> outs[i].Value, PkScript |-> outs[i].ScriptPubKey]]
            estimatedSize ==
                EstimateSerializeSize(Len(ins), txOut, FALSE, "P2SH_2of3_Multisig")
            fee == estimatedSize * feePerByte
            feePerOutput == GoDiv(fee, Len(txOut))
        IN  [err |-> "",
             Tx |-> InPlaceSort(
                [TxIn |-> txIn,
                 TxOut |-> [i \in 1..Len(txOut) |->
                              [txOut[i] EXCEPT !.Value = @ - feePerOutput]]])]

\* What a signature of input i of transaction t under script commits to.
SigHashAll(t, i, script) ==
    <<[j \in 1..Len(t.TxIn) |-> <<t.TxIn[j].hash, t.TxIn[j].index>>], t.TxOut, i, script.id>>

\* txscript.RawTxInSignature: fails when the script does not parse.
RawTxInSignature(t, i, script, key) ==
    IF ~script.parses THEN [err |-> TRUE, sig |-> NilSig]
    ELSE [err |-> FALSE, sig |-> [key |-> key.id, idx |-> i, msg |-> SigHashAll(t, i, script)]]

\* The loop of lines 916-923 from input i (0-based) on: a failed signature
\* is skipped.
RECURSIVE SignLoop(_, _, _, _)
SignLoop(t, i, script, key) ==
    IF i >= Len(t.TxIn) THEN <<>>
    ELSE LET r == RawTxInSignature(t, i, script, key)
         IN  (IF r.err THEN <<>> ELSE <<[InputIndex |-> i, Signature |-> r.sig]>>)
             \o SignLoop(t, i + 1, script, key)

CreateMultisigSignature(ins, outs, key, redeemScript, feePerByte) ==
    LET sk == SignerSkeleton(ins, outs, feePerByte)
    IN  IF sk.err # "" THEN [err |-> sk.err, sigs |-> <<>>, Tx |-> NoTx]
        ELSE IF ~key.isPrivate THEN [err |-> "ECPrivKey", sigs |-> <<>>, Tx |-> sk.Tx]
        ELSE [err |-> "", sigs |-> SignLoop(sk.Tx, 0, redeemScript, key), Tx |-> sk.Tx]

\* The signature of the last element of sigs whose InputIndex is i, or nil.
RECURSIVE MatchingSig(_, _)
MatchingSig(sigs, i) ==
    IF sigs = <<>> THEN NilSig
    ELSE IF sigs[Len(sigs)].InputIndex = i THEN sigs[Len(sigs)].Signature
    ELSE MatchingSig(SubSeq(sigs, 1, Len(sigs) - 1), i)

MaxScriptElementSize == 520

\* ScriptBuilder.AddData: empty data is pushed as OP_0.
AddSig(sig) ==
    IF sig = NilSig THEN [op |-> "OP_0", sig |-> NilSig, script |-> 0]
    ELSE [op |-> "DATA", sig |-> sig, script |-> 0]

AddScript(script) == [op |-> "DATA", sig |-> NilSig, script |-> script.id]

\* The signature script of input i (0-based), lines 956-979.
MultisigScriptSig(i, s1, s2, redeemScript) ==
    IF redeemScript.len > MaxScriptElementSize
    THEN [err |-> TRUE, script |-> <<>>]
    ELSE [err |-> FALSE,
          script |-> << [op |-> "OP_0", sig |-> NilSig, script |-> 0],
                        AddSig(MatchingSig(s1, i)),
                        AddSig(MatchingSig(s2, i)),
                        AddScript(redeemScript) >>]

\* Multisign up to the broadcast.
Multisign(ins, outs, s1, s2, redeemScript, feePerByte) ==
    LET sk == CombinerSkeleton(ins, outs, feePerByte)
    IN  IF sk.err # "" THEN [err |-> sk.err, Tx |-> NoTx]
        ELSE IF \E i \in 1..Len(sk.Tx.TxIn) :
                    MultisigScriptSig(i - 1, s1, s2, redeemScript).err
        THEN [err |-> "ScriptBuilder", Tx |-> NoTx]
        ELSE [err |-> "",
              Tx |-> [sk.Tx EXCEPT !.TxIn = [i \in 1..Len(sk.Tx.TxIn) |->
                        [sk.Tx.TxIn[i] EXCEPT !.sigScript =
                            MultisigScriptSig(i - 1, s1, s2, redeemScript).script]]]]

\* s without its d-th element (d = 0: all of s).
DropAt(s, d) == [i \in 1..(Len(s) - (IF d \in 1..Len(s) THEN 1 ELSE 0)) |->
                    IF d \in 1..Len(s) /\ i >= d THEN s[i + 1] ELSE s[i]]

\* Party A calls CreateMultisigSignature.
MsSignA ==
    /\ opPc = "idle"
    /\ UNCHANGED <<gateVars, bump, auxVars>>
    /\ opName' = "CreateMultisigSignature"
    /\ \E ins \in MsInputLists, outs \in MsOutputLists, redeem \in RedeemScripts,
          rate \in MsRates, key \in {KeyA, KeyPub} :
        LET r == CreateMultisigSignature(ins, outs, key, redeem, rate)
        IN  /\ msCall' = [ins |-> ins, outs |-> outs, redeem |-> redeem, feePerByte |-> rate,
                        broadcast |-> FALSE]
            /\ IF r.err # "" THEN
                    /\ Finish(Failed(r.err))
                    /\ UNCHANGED <<sigs1, tx>>
               ELSE
                    /\ sigs1' = r.sigs
                    /\ tx' = r.Tx
                    /\ opPc' = "signedA"
                    /\ UNCHANGED result
    /\ UNCHANGED <<utxos, coins, nutVars, signedOk, sigs2, sent>>

\* Party B calls CreateMultisigSignature with the same arguments.
MsSignB ==
    /\ opPc = "signedA"
    /\ UNCHANGED <<gateVars, bump, auxVars>>
    /\ LET r == CreateMultisigSignature(msCall.ins, msCall.outs, KeyB, msCall.redeem,
                                        msCall.feePerByte)
       IN  /\ sigs2' = r.sigs
           /\ opPc' = "signedB"
    /\ UNCHANGED <<utxos, opName, coins, nutVars, tx, signedOk, msCall, sigs1, sent,
                   result>>

\* Multisign with the two lists, one of them possibly lacking a signature;
\* the node's reply to SendRawTransaction matters only when broadcasting.
MsCombine ==
    /\ opPc = "signedB"
    /\ UNCHANGED <<gateVars, bump, auxVars>>
    /\ opName' = "Multisign"
    /\ \E d1 \in 0..Len(sigs1), d2 \in 0..Len(sigs2), broadcast \in BOOLEAN,
          sendOk \in BOOLEAN :
        /\ d1 = 0 \/ d2 = 0
        /\ broadcast \/ sendOk
        /\ LET s1 == DropAt(sigs1, d1)
               s2 == DropAt(sigs2, d2)
               r == Multisign(msCall.ins, msCall.outs, s1, s2, msCall.redeem,
                              msCall.feePerByte)
           IN  /\ sigs1' = s1
               /\ sigs2' = s2
               /\ msCall' = [msCall EXCEPT !.broadcast = broadcast]
               /\ IF r.err # "" THEN
                       /\ Finish(Failed(r.err))
                       /\ UNCHANGED <<tx, sent>>
                  ELSE
                       /\ tx' = r.Tx
                       /\ sent' = IF broadcast THEN Append(sent, r.Tx) ELSE sent
                       /\ Finish(IF broadcast /\ ~sendOk THEN Failed("SendRawTransaction")
                                 ELSE Ok)
    /\ UNCHANGED <<utxos, coins, nutVars, signedOk>>

SpendNext == SpendBegin \/ BuildBegin \/ NutIterate \/ SpendSign \/ SpendSend

SignNext == SweepBuild \/ SweepSign \/ SweepSend \/ MsSignA \/ MsSignB \/ MsCombine

(***************************************************************************)
(* Specifications.                                                         *)
(***************************************************************************)
\* The gate as it is once Start has run to its end.
GateOpened ==
    /\ initOpen = TRUE
    /\ startPc = "done"
    /\ failedPolls = 0
    /\ tickerActive = FALSE
    /\ tickBuffered = FALSE
    /\ fatal = FALSE
    /\ addrsToWatch = <<>>
    /\ flushPc = "done"
    /\ flushSnap = <<>>
    /\ flushIdx = 1
    /\ importLog = <<>>
    /\ acceptedClosed = <<>>
    /\ pc = [t \in Threads |-> "idle"]
    /\ op = [t \in Threads |-> "none"]
    /\ arg = [t \in Threads |-> "none"]
    /\ tmp = [t \in Threads |-> <<>>]
    /\ ncalls = 0

\* Start and the callers' threads, interleaved.
InitGate == GateInit /\ OpInit /\ utxos = <<>>

SpecGate == InitGate /\ [][GateNext]_vars

\* One Spend, or one direct call of NewUnsignedTransaction, against a node
\* with any reported unspent set.
InitSpend ==
    /\ GateOpened /\ OpInit
    /\ \E c \in UtxoChoices : utxos = [i \in 1..Len(c) |-> UtxoList[c[i]]]

SpecSpend == InitSpend /\ [][SpendNext]_vars

\* One SweepAddress call, or one run of the two-party multisignature
\* protocol; neither reads the wallet's unspent set.
InitSign == GateOpened /\ OpInit /\ utxos = <<>>

SpecSign == InitSign /\ [][SignNext]_vars

\* One BumpFee call against a node with any reported unspent list.
BumpNext == BumpFee \/ SweepSign \/ SweepSend

InitBump == GateOpened /\ OpInit /\ utxos \in BumpLists

SpecBump == InitBump /\ [][BumpNext]_vars

\* GetFeePerByte called over and over, each call with any level and reply.
InitFee == GateOpened /\ OpInit /\ utxos = <<>>

SpecFee == InitFee /\ [][GetFeePerByteCall]_vars

\* GenerateMultisigScript called over and over against a node whose tip and
\* availability vary between the calls.
InitScript == GateOpened /\ OpInit /\ utxos = <<>>

SpecScript == InitScript /\ [][GenerateMultisigScriptCall]_vars

\* The price fetcher: run() refreshing while a caller uses the getters.
InitRates == GateOpened /\ OpInit /\ utxos = <<>>

SpecRates == InitRates /\ [][RatesNext]_vars

\* The message store: threads calling Put and the getters over one table.
InitStore == GateOpened /\ OpInit /\ utxos = <<>>

SpecStore == InitStore /\ [][StoreNext]_vars

\* The same, with the loop of NewUnsignedTransaction running on: the call
\* executes on its caller's thread and nothing suspends it inside the loop.
\* This is WF_vars(NutIterate) with ENABLED <<NutIterate>>_vars written out:
\* an iteration can run exactly when the build is at its fetch, and every
\* iteration changes opPc or iters.
SpecSpendFair ==
    /\ InitSpend
    /\ [][SpendNext]_vars
    /\ ([]<>(opPc # "fetch") \/ []<><<NutIterate>>_vars)

(***************************************************************************)
(* Properties.                                                             *)
(***************************************************************************)

\* C1: no chain-dependent operation (Balance, CurrentAddress, NewAddress,
\* Spend, CreateMultisigSignature, Multisign, SweepAddress) is doing its
\* work (node RPC, signature computation) while initChan is not yet closed.
C1_NoWorkBeforeGate ==
    \A t \in Threads : (pc[t] = "working" /\ op[t] \in ChainOps) => initOpen

\* The importaddress requests made by the flush, in order.
RECURSIVE FlushedAddrs(_)
FlushedAddrs(log) ==
    IF log = <<>> THEN <<>>
    ELSE (IF Head(log).via = "flush" THEN <<Head(log).addr>> ELSE <<>>)
         \o FlushedAddrs(Tail(log))

\* a occurs within b, entry for entry and in the same order.
RECURSIVE IsSubsequence(_, _)
IsSubsequence(a, b) ==
    IF a = <<>> THEN TRUE
    ELSE IF b = <<>> THEN FALSE
    ELSE IF Head(a) = Head(b) THEN IsSubsequence(Tail(a), Tail(b))
    ELSE IsSubsequence(a, Tail(b))

\* C2: once the flush has ended and no AddWatchedScript call is in progress,
\* every address whose call returned nil while the gate was closed has been
\* registered by the flush, one registration per call, in submission order.
C2_QueuedRegisteredOnceInOrder ==
    (flushPc = "done" /\ \A t \in Threads : pc[t] = "idle")
        => IsSubsequence(acceptedClosed, FlushedAddrs(importLog))

\* Multisign was called and went through its signature-script loop.
MultisignRan == opName = "Multisign" /\ opPc = "done"

\* Some input index has no signature in one of the lists handed to Multisign.
SomeSignatureMissing ==
    \E i \in 0..(Len(msCall.ins) - 1) :
        MatchingSig(sigs1, i) = NilSig \/ MatchingSig(sigs2, i) = NilSig

\* C3: when sigs1 or sigs2 has no signature for some input index, Multisign
\* returns an error and sends nothing to the node.
C3_MissingSignatureFails ==
    (MultisignRan /\ SomeSignatureMissing) => (result.err # "" /\ sent = <<>>)

\* C4: Spend hands at most one transaction to SendRawTransaction, and only
\* one whose amount passed the dust check, whose inputs cover amount plus
\* fee and whose inputs were all signed; otherwise nothing is sent.
C4_SpendFailClosed ==
    opName = "Spend" =>
        /\ Len(sent) <= 1
        /\ sent # <<>> =>
            /\ signedOk
            /\ authored.present
            /\ ~IsDustAmount(outputs[1].Value, outputs[1].PkScript.len, DefaultRelayFeePerKb)
            /\ authored.TotalInput >=
                 targetAmount + MaxRequiredFee(Len(authored.Tx.TxIn), outputs, feePerKb)

InsufficientFundsErrors ==
    {"ErrorInsuffientFunds", "insufficient funds available to construct transaction"}

\* C5: when the coins are worth less than the requested outputs, the build
\* ends at its first fetch with an insufficient-funds error and no
\* transaction; and the input source never returns, without an error, a
\* selection worth less than the amount it was asked for.
C5_InsufficientFunds ==
    /\ (lastFetch.called /\ TotalValue(coins) < targetAmount) =>
            /\ opPc = "done"
            /\ result.err \in InsufficientFundsErrors
            /\ ~authored.present
            /\ iters = 0
    /\ (lastFetch.called /\ ~lastFetch.err) => lastFetch.total >= lastFetch.target

C5_Witness ==
    /\ opName = "NewUnsignedTransaction"
    /\ coins # <<>>
    /\ TotalValue(coins) < targetAmount
    /\ lastFetch.called
    /\ result.err = "ErrorInsuffientFunds"

\* The value of the coin an input spends (its hash is the coin's id).
InputValue(in) ==
    LET i == CHOOSE k \in 1..Len(coins) : coins[k].id = in.hash IN coins[i].value

AuthoredFee == MaxRequiredFee(Len(authored.Tx.TxIn), outputs, feePerKb)

\* C6: a returned transaction's TotalInput is the value of its inputs and
\* is at least the sum of all its outputs (change included) plus the fee
\* for its number of inputs; with a change output the two are equal.
C6_InputsCoverOutputsAndFee ==
    authored.present =>
        /\ authored.TotalInput =
             SumSeq([i \in 1..Len(authored.Tx.TxIn) |-> InputValue(authored.Tx.TxIn[i])])
        /\ authored.TotalInput >= TargetOf(authored.Tx.TxOut) + AuthoredFee
        /\ authored.ChangeIndex >= 0 =>
             authored.TotalInput = TargetOf(authored.Tx.TxOut) + AuthoredFee

C6_Witness ==
    /\ authored.present
    /\ iters >= 1
    /\ authored.ChangeIndex >= 0
    /\ feePerKb > 0

\* C7: an iteration that does not return raises targetFee strictly; the
\* iterations that do not return number at most the coins available; and
\* the loop ends, with a transaction or an error.
C7_FeeLoopTerminates ==
    /\ [][(opPc = "fetch" /\ opPc' = "fetch") => targetFee' > targetFee]_vars
    /\ [](iters <= Len(coins))
    /\ [](opPc = "fetch" => <>(opPc \in {"built", "done"}))

C7_Witness ==
    /\ iters >= 1
    /\ opPc = "done"
    /\ opName = "NewUnsignedTransaction"
    /\ authored.present

\* C8: with change = TotalInput - target - fee: when change is zero or dust
\* the transaction has exactly the requested outputs, ChangeIndex is -1 and
\* the change source was not called; otherwise it has the requested outputs
\* followed by one change output worth change, at index ChangeIndex.
C8_ChangePolicy ==
    authored.present =>
        LET change == authored.TotalInput - targetAmount - AuthoredFee
            l == Len(outputs)
        IN  IF change = 0 \/ IsDustAmount(change, P2PKHOutputSize, DefaultRelayFeePerKb)
            THEN /\ authored.Tx.TxOut = outputs
                 /\ authored.ChangeIndex = -1
                 /\ ~changeInvoked
            ELSE /\ Len(authored.Tx.TxOut) = l + 1
                 /\ SubSeq(authored.Tx.TxOut, 1, l) = outputs
                 /\ authored.Tx.TxOut[l + 1].Value = change
                 /\ authored.ChangeIndex = l
                 /\ changeInvoked

C8_Witness ==
    /\ authored.present
    /\ authored.ChangeIndex = -1
    /\ authored.TotalInput - targetAmount - AuthoredFee > 0

\* A signature has been computed over tx.
SignatureComputed == opPc \in {"signed", "signedA", "signedB"}

\* C9: whenever a transaction has been signed, on any path, every output of
\* it is above the dust threshold for its script.
C9_NoDustOutputSigned ==
    SignatureComputed =>
        \A i \in 1..Len(tx.TxOut) :
            ~IsDustAmount(tx.TxOut[i].Value, tx.TxOut[i].PkScript.len, DefaultRelayFeePerKb)

\* sigs holds exactly one signature per input, with InputIndex 0..n-1, made
\* with key k.
OnePerInput(sigs, n, k) ==
    /\ Len(sigs) = n
    /\ \A i \in 1..n : sigs[i].InputIndex = i - 1 /\ sigs[i].Signature.key = k.id

\* C10: CreateMultisigSignature returns one signature per input for each
\* party, and Multisign over the two lists yields a transaction in which
\* every input's signature script holds both parties' signatures for it.
C10_RoundTrip ==
    /\ opPc = "signedA" => OnePerInput(sigs1, Len(msCall.ins), KeyA)
    /\ opPc = "signedB" => OnePerInput(sigs2, Len(msCall.ins), KeyB)
    /\ (MultisignRan /\ ~SomeSignatureMissing) =>
            /\ result.err \in {"", "SendRawTransaction"}
            /\ \A i \in 1..Len(tx.TxIn) :
                /\ Len(tx.TxIn[i].sigScript) = 4
                /\ tx.TxIn[i].sigScript[2].sig = MatchingSig(sigs1, i - 1)
                /\ tx.TxIn[i].sigScript[3].sig = MatchingSig(sigs2, i - 1)

\* t with every signature script emptied.
Unsigned(t) ==
    [t EXCEPT !.TxIn = [i \in 1..Len(t.TxIn) |-> [t.TxIn[i] EXCEPT !.sigScript = <<>>]]]

\* t's inputs and outputs are in BIP 69 order.
IsCanonical(t) ==
    /\ \A i, j \in 1..Len(t.TxIn) : i < j => ~InputLess(t.TxIn[j], t.TxIn[i])
    /\ \A i, j \in 1..Len(t.TxOut) : i < j => ~OutputLess(t.TxOut[j], t.TxOut[i])

\* C11: the transaction Multisign rebuilds from (ins, outs, feePerByte) is,
\* signature scripts apart, the one CreateMultisigSignature built from the
\* same arguments: same canonical input and output order, same fee-adjusted
\* values; so every signature handed over commits to the combiner's
\* transaction at its own input index.
C11_SkeletonsAgree ==
    [][(opPc = "signedB" /\ opPc' = "done" /\ result'.err \in {"", "SendRawTransaction"}) =>
            /\ Unsigned(tx') = tx
            /\ IsCanonical(tx')
            /\ \A k \in 1..Len(sigs1') :
                 sigs1'[k].Signature.msg =
                    SigHashAll(tx', sigs1'[k].InputIndex, msCall.redeem)
            /\ \A k \in 1..Len(sigs2') :
                 sigs2'[k].Signature.msg =
                    SigHashAll(tx', sigs2'[k].InputIndex, msCall.redeem)]_vars

C11_Witness ==
    /\ MultisignRan
    /\ result.err = ""
    /\ msCall.feePerByte > 0
    /\ Len(msCall.ins) = 2
    /\ msCall.ins[1].OutpointHash.key = msCall.ins[2].OutpointHash.key
    /\ msCall.ins[1].OutpointIndex > msCall.ins[2].OutpointIndex
    /\ Len(msCall.outs) = 2
    /\ msCall.outs[1].Value > msCall.outs[2].Value
    /\ Len(sigs1) = 2 /\ Len(sigs2) = 2

\* No sweep transaction was built, signed or sent.
NoSweep == tx = NoTx /\ ~signedOk /\ sent = <<>>

BumpRefused(e) == opPc = "done" /\ result.err = e /\ NoSweep

\* No entry of the node's unspent list belongs to the transaction.
NoEntryOfTx == \A i \in 1..Len(utxos) : utxos[i].txid # bump.txid

\* Some entry of the node's unspent list belongs to it and is confirmed.
ConfirmedEntryOfTx ==
    \E i \in 1..Len(utxos) : utxos[i].txid = bump.txid /\ utxos[i].confs > 0

\* A confirmed entry of the transaction stands in the list before every
\* unconfirmed entry of the transaction that the wallet can resolve.
ConfirmedEntryComesFirst ==
    \E i \in 1..Len(utxos) :
        /\ utxos[i].txid = bump.txid
        /\ utxos[i].confs > 0
        /\ \A j \in 1..(i - 1) :
                utxos[j].txid = bump.txid => (utxos[j].confs = 0 /\ ~utxos[j].resolves)

\* C12 as stated: BumpFee returns the already-confirmed error whenever the
\* transaction or its unspent output is reported confirmed, and the not-found
\* error whenever no unspent entry has the txid, without any sweep.
C12_AsStated ==
    opName = "BumpFee" =>
        /\ (bump.txReply = "confirmed" \/ ConfirmedEntryOfTx) =>
                BumpRefused("BumpFeeAlreadyConfirmedError")
        /\ NoEntryOfTx => BumpRefused("BumpFeeNotFoundError")

\* C12, amended: when GetTransaction reports confirmations > 0, or reports
\* none and ListUnspent succeeds with a confirmed entry of the txid that
\* stands before every unconfirmed, resolvable entry of the txid, BumpFee
\* returns the already-confirmed error; when both calls succeed, the
\* transaction is unconfirmed and no entry has the txid, it returns the
\* not-found error; when a call fails it returns that failure; in each of
\* these cases there is no sweep.
C12_BumpFeeRefusals ==
    opName = "BumpFee" =>
        /\ bump.txReply = "confirmed" => BumpRefused("BumpFeeAlreadyConfirmedError")
        /\ (bump.txReply = "unconfirmed" /\ ~bump.listErr /\ ConfirmedEntryComesFirst) =>
                BumpRefused("BumpFeeAlreadyConfirmedError")
        /\ (bump.txReply = "unconfirmed" /\ ~bump.listErr /\ NoEntryOfTx) =>
                BumpRefused("BumpFeeNotFoundError")
        /\ bump.txReply = "err" => BumpRefused("GetTransaction")
        /\ (bump.txReply = "unconfirmed" /\ bump.listErr) => BumpRefused("ListUnspent")

\* The refusal met behind an entry of the transaction that was passed over.
C12_Witness ==
    /\ opName = "BumpFee"
    /\ bump.txReply = "unconfirmed"
    /\ ~bump.listErr
    /\ Len(utxos) = 2
    /\ utxos[1].txid = bump.txid /\ utxos[1].confs = 0 /\ ~utxos[1].resolves
    /\ utxos[2].txid = bump.txid /\ utxos[2].confs > 0
    /\ result.err = "BumpFeeAlreadyConfirmedError"

\* The output SweepAddress leaves for one P2PKH input worth v when the fee
\* oracle answers reply.
SweptOutput(v, reply) ==
    LET out == [Value |-> v, PkScript |-> PayToAddrScript("P2PKH")]
        perKb == IF reply.val <= 0 THEN SweepFeePerKbDefault ELSE reply.val
        fee == EstimateSerializeSize(1, <<out>>, FALSE, "P2PKH") * GoDiv(perKb, 1000)
    IN  IF v - fee < 0 THEN 0 ELSE v - fee

\* C20: the value BumpFee hands to SweepAddress for the output it found is
\* the reported amount in base units (amount x 10^8), and the swept
\* transaction's single output is that value minus the fee, or zero when
\* the fee is at least the value.
C20_BumpSweepsFullValue ==
    (opName = "BumpFee" /\ bump.found > 0) =>
        /\ bump.Value = utxos[bump.found].value
        /\ tx # NoTx =>
            \E reply \in OracleReplies :
                /\ reply.kind = "int"
                /\ tx.TxOut[1].Value = SweptOutput(utxos[bump.found].value, reply)

\* C13: priority asks the oracle for target 1, normal for 3, economic for
\* 6, each exactly once; any other level asks nothing and gets the default
\* 50; an oracle error, an undecodable reply and a non-positive reply get
\* the default 50.
C13_FeeLevelMapping ==
    \A k \in 1..Len(feeLog) :
        LET e == feeLog[k] IN
        /\ e.level = "PRIOIRTY" => e.queries = <<1>>
        /\ e.level = "NORMAL" => e.queries = <<3>>
        /\ e.level = "ECONOMIC" => e.queries = <<6>>
        /\ e.level \notin {"PRIOIRTY", "NORMAL", "ECONOMIC"} =>
                e.queries = <<>> /\ e.rate = 50
        /\ e.reply.kind \in {"err", "nan"} => e.rate = 50
        /\ (e.reply.kind = "int" /\ e.reply.val <= 0) => e.rate = 50

C13_Witness ==
    /\ Len(feeLog) = 2
    /\ feeLog[1].level = "ECONOMIC" /\ feeLog[1].reply = [kind |-> "int", val |-> 0]
    /\ feeLog[2].level = "FEE_BUMP"

\* C19: the rate GetFeePerByte returns is at least 1 per byte, so the rate
\* per kilobyte that buildTx hands to NewUnsignedTransaction is never zero.
C19_FeeRateAtLeastOne ==
    (opName = "Spend" /\ opPc \in {"fetch", "built", "signed"}) => feePerKb >= 1000

\* cs holds exactly one coin for each spendable entry of us, and nothing else.
OnePerSpendable(cs, us) ==
    LET idx == {i \in 1..Len(us) : us[i].spendable}
    IN  /\ Len(cs) = Cardinality(idx)
        /\ \A i \in idx : Cardinality({k \in 1..Len(cs) : cs[k].id = i}) = 1
        /\ \A k \in 1..Len(cs) :
            /\ cs[k].id \in idx
            /\ cs[k].value = us[cs[k].id].value
            /\ cs[k].confs = us[cs[k].id].confs

\* C14: gatherCoins fails when the list request fails or a spendable output
\* does not resolve, and otherwise returns one coin per spendable output
\* and none for the others; a Spend whose gathering failed returns that
\* error with no coin selection run, and every coin selection of a Spend
\* runs over the complete set.
C14_GatherAllOrNothing ==
    /\ \A listErr \in BOOLEAN, failAt \in 0..Len(utxos) :
        LET g == gatherCoins(utxos, listErr, failAt)
        IN  IF listErr \/ (failAt >= 1 /\ utxos[failAt].spendable)
            THEN g.err
            ELSE ~g.err /\ OnePerSpendable(g.coins, utxos)
    /\ opName = "Spend" =>
        /\ result.err = "gatherCoins" =>
                /\ coins = <<>>
                /\ ~lastFetch.called
                /\ ~authored.present
                /\ sent = <<>>
        /\ lastFetch.called => OnePerSpendable(coins, utxos)

C14_Witness ==
    /\ opName = "Spend"
    /\ result.err = "gatherCoins"
    /\ Len(utxos) = 3
    /\ utxos[1].spendable /\ ~utxos[3].spendable

\* C15: once the gate is open the pending watch queue does not change: no
\* step appends to addrsToWatch after close(initChan), in particular none
\* while or after the flush ranges over it.
C15_QueueDeadAfterOpen ==
    [][initOpen => addrsToWatch' = addrsToWatch]_vars

\* C16: the gate is open only after a GetBlockCount poll succeeded (Start
\* has left its poll loop), the flush of the watch queue has begun only
\* with the gate open, and once the gate is open the fatal startup condition
\* ("Failed to connect to zend") does not occur.
C16_StartOrder ==
    /\ initOpen => startPc \in {"spawnFlush", "done"}
    /\ flushPc # "none" => initOpen
    /\ ~(initOpen /\ fatal)

\* C18: the cache map is read and written only under the price fetcher's
\* mutex, so no caller of GetAllRates, GetExchangeRate or GetLatestRate is
\* about to read the map while a refresh is in the middle of storing into
\* it.
ReadPending(t) == ratePc[t] \in {"locked", "has_map"}

C18_NoReadDuringRefresh ==
    \A t \in RateThreads : \A u \in RateThreads \ {t} :
        ~(ReadPending(t) /\ StoresPending(u))

\* C21: with Put and the getters interleaved in any way: a
\* GetByMessageIDType returns the message and the peerID of the last Put of
\* that messageID that returned nil, and an error and no message when there
\* was none (a Get in which the database or the decoding failed returns an
\* error and no message and is not held against the statement); the table
\* never holds two rows of one messageID; and a Put that returns an error
\* leaves the table as it was.
GetServed(t) ==
    /\ storeRes[t].name = "GetByMessageIDType"
    /\ storeRes[t].err \notin {"Prepare", "Scan", "Unmarshal"}

GetAnswersLastPut ==
    \A t \in StoreThreads :
        storeRes[t].name = "GetByMessageIDType" =>
            IF storeRes[t].last = <<>> \/ ~GetServed(t)
            THEN /\ storeRes[t].err # ""
                 /\ storeRes[t].msg = <<>>
                 /\ storeRes[t].peerID = ""
            ELSE /\ storeRes[t].err = ""
                 /\ storeRes[t].msg = <<storeRes[t].last[1].msg>>
                 /\ storeRes[t].peerID = storeRes[t].last[1].peerID

OneRowPerMessageID ==
    \A i, j \in 1..Len(storeRows) :
        storeRows[i].messageID = storeRows[j].messageID => i = j

FailedPutKeepsRows ==
    \A t \in StoreThreads :
        (/\ storePc[t] = "locked" /\ storeOp[t].name = "Put"
         /\ storePc'[t] = "idle" /\ storeRes'[t].err # "")
        => storeRows' = storeRows

C21_PutGet ==
    /\ [](GetAnswersLastPut /\ OneRowPerMessageID)
    /\ [][FailedPutKeepsRows]_vars

=============================================================================
